---------------------------- MODULE Spec2Model ----------------------------
(***************************************************************************)
(* A model of the figma-to-code generation pipeline (react dialect):       *)
(* CodeGenerator.generateReact / generateSubComponent with its mutable     *)
(* generation context, the two analyzers, the JSX transformer, the         *)
(* template assembler and the naming utilities.                            *)
(*                                                                         *)
(* Text is modelled as a sequence of one-character strings, so that the    *)
(* regular-expression based conversions of nameUtils.js are computed and   *)
(* not assumed.  JavaScript objects with identity (the Maps and the        *)
(* counter object of the context) live in explicit heaps, because the      *)
(* code clears them in place and re-binds the fields to copies.            *)
(***************************************************************************)
EXTENDS Integers, Sequences, FiniteSets, TLC

(***************************************************************************)
(* Characters and text                                                     *)
(***************************************************************************)
LowerChars ==
  << "a","b","c","d","e","f","g","h","i","j","k","l","m",
     "n","o","p","q","r","s","t","u","v","w","x","y","z" >>

UpperChars ==
  << "A","B","C","D","E","F","G","H","I","J","K","L","M",
     "N","O","P","Q","R","S","T","U","V","W","X","Y","Z" >>

DigitChars == << "0","1","2","3","4","5","6","7","8","9" >>

Range(s) == { s[i] : i \in DOMAIN s }

IndexOf(c, s) == CHOOSE i \in DOMAIN s : s[i] = c

IsLower(c) == c \in Range(LowerChars)
IsUpper(c) == c \in Range(UpperChars)
IsDigit(c) == c \in Range(DigitChars)
IsAlnum(c) == IsLower(c) \/ IsUpper(c) \/ IsDigit(c)
\* \s of the regular expressions (only the blank occurs in the modelled names)
IsSpace(c) == c = " "
\* the class [\s-]
IsSep(c) == IsSpace(c) \/ c = "-"

\* String.prototype.toUpperCase / toLowerCase on one character
UpperChar(c) == IF IsLower(c) THEN UpperChars[IndexOf(c, LowerChars)] ELSE c
LowerChar(c) == IF IsUpper(c) THEN LowerChars[IndexOf(c, UpperChars)] ELSE c

toLowerCase(s) == [ i \in DOMAIN s |-> LowerChar(s[i]) ]

RECURSIVE Filter(_, _)
\* the characters of s that belong to the set keep, in order
Filter(s, keep) ==
  IF s = << >> THEN << >>
  ELSE (IF Head(s) \in keep THEN << Head(s) >> ELSE << >>) \o Filter(Tail(s), keep)

RECURSIVE TrimLeft(_)
TrimLeft(s) == IF s # << >> /\ IsSpace(Head(s)) THEN TrimLeft(Tail(s)) ELSE s

RECURSIVE TrimRight(_)
TrimRight(s) ==
  IF s # << >> /\ IsSpace(s[Len(s)]) THEN TrimRight(SubSeq(s, 1, Len(s) - 1)) ELSE s

\* String.prototype.trim
Trim(s) == TrimRight(TrimLeft(s))

\* String.prototype.includes
Includes(s, kw) ==
  \E i \in 1..(Len(s) - Len(kw) + 1) : SubSeq(s, i, i + Len(kw) - 1) = kw

\* keywords.some(keyword => name.includes(keyword))
IncludesAny(s, kws) == \E kw \in kws : Includes(s, kw)

RECURSIVE Digits(_)
\* the decimal text of a natural number, as in a template literal
Digits(n) ==
  IF n < 10 THEN << DigitChars[n + 1] >>
  ELSE Digits(n \div 10) \o << DigitChars[(n % 10) + 1] >>

\* length of the run of separator characters starting at position i of s
RECURSIVE SepRun(_, _)
SepRun(s, i) == IF i <= Len(s) /\ IsSep(s[i]) THEN 1 + SepRun(s, i + 1) ELSE 0

RECURSIVE CapitalizeAfterSeps(_, _)
\* s.replace(/[\s-]+(.)/g, (_, chr) => chr.toUpperCase()), scanning from i.
\* A run of separators followed by a character is replaced by that character
\* in upper case; a run that reaches the end of the text matches only by
\* giving its last separator to the group (.), and a single final separator
\* does not match at all and stays.
CapitalizeAfterSeps(s, i) ==
  IF i > Len(s) THEN << >>
  ELSE IF ~IsSep(s[i]) THEN << s[i] >> \o CapitalizeAfterSeps(s, i + 1)
  ELSE LET n == SepRun(s, i) IN
       IF i + n <= Len(s)
         THEN << UpperChar(s[i + n]) >> \o CapitalizeAfterSeps(s, i + n + 1)
       ELSE IF n >= 2 THEN << s[Len(s)] >>
       ELSE << s[i] >>

\* removes every character outside [a-zA-Z0-9\s-], then trims
CleanName(str) ==
  Trim(Filter(str, { c \in Range(str) : IsAlnum(c) \/ IsSep(c) }))

ComponentText == << "C","o","m","p","o","n","e","n","t" >>
ItemText == << "i","t","e","m" >>

toPascalCase(str) ==
  LET Prefixed(b) == IF IsDigit(Head(b)) THEN << "N" >> \o b ELSE b
      Capitalized(a) ==
        Prefixed(IF IsLower(Head(a)) THEN << UpperChar(Head(a)) >> \o Tail(a) ELSE a)
      Converted(cleaned) ==
        IF cleaned = << >> THEN ComponentText
        ELSE Capitalized(CapitalizeAfterSeps(cleaned, 1))
  IN IF str = << >> THEN ComponentText ELSE Converted(CleanName(str))


\* toCamelCase: names longer than this are shortened
MaxCamelLen == 30
\* toCamelCase: a word counts as important when it is longer than this
MinWordLen == 3
\* toCamelCase: number of important words kept
MaxImportantWords == 3

RECURSIVE SplitWords(_, _, _)
\* cleaned.split(/[\s-]+/): the pieces between runs of separators, from i on,
\* cur being the piece collected so far
SplitWords(s, i, cur) ==
  IF i > Len(s) THEN << cur >>
  ELSE IF IsSep(s[i])
    THEN << cur >> \o SplitWords(s, i + SepRun(s, i), << >>)
  ELSE SplitWords(s, i + 1, Append(cur, s[i]))

StopWords ==
  { <<"t","h","e">>, <<"a","n","d">>, <<"a","r","e">>, <<"f","o","r">>,
    <<"w","i","t","h">>, <<"t","h","a","t">>, <<"t","h","i","s">>,
    <<"f","r","o","m">>, <<"h","a","v","e">>, <<"b","e","e","n">> }

RECURSIVE SelectWords(_)
\* words.filter(word => word.length > 3 && !stopWords.includes(word))
SelectWords(ws) ==
  IF ws = << >> THEN << >>
  ELSE (IF Len(Head(ws)) > MinWordLen /\ Head(ws) \notin StopWords
          THEN << Head(ws) >> ELSE << >>) \o SelectWords(Tail(ws))

RECURSIVE JoinCamel(_, _)
\* shortWords.map((word, index) => index === 0 ? word : Capitalized(word)).join('')
JoinCamel(ws, first) ==
  IF ws = << >> THEN << >>
  ELSE (IF first \/ Head(ws) = << >> THEN Head(ws)
        ELSE << UpperChar(Head(ws)[1]) >> \o Tail(Head(ws)))
       \o JoinCamel(Tail(ws), FALSE)

toCamelCase(str) ==
  LET LetterFirst(short) ==
        IF short # << >> /\ (IsLower(Head(short)) \/ IsUpper(Head(short)))
          THEN short ELSE ItemText \o short
      Shortened(important, camelCase) ==
        LetterFirst(IF important # << >>
                      THEN JoinCamel(SubSeq(important, 1,
                             IF Len(important) < MaxImportantWords
                               THEN Len(important) ELSE MaxImportantWords), TRUE)
                    ELSE SubSeq(camelCase, 1, MaxCamelLen))
      Bounded(cleaned, camelCase) ==
        IF Len(camelCase) > MaxCamelLen
          THEN Shortened(SelectWords(SplitWords(toLowerCase(cleaned), 1, << >>)), camelCase)
        ELSE camelCase
      Prefixed(cleaned, b) ==
        Bounded(cleaned, IF IsDigit(Head(b)) THEN << "n" >> \o b ELSE b)
      Decapitalized(cleaned, a) ==
        Prefixed(cleaned, IF IsUpper(Head(a)) THEN << LowerChar(Head(a)) >> \o Tail(a) ELSE a)
      Converted(cleaned) ==
        IF cleaned = << >> THEN ItemText
        ELSE Decapitalized(cleaned, CapitalizeAfterSeps(cleaned, 1))
  IN IF str = << >> THEN << >> ELSE Converted(CleanName(str))

RECURSIVE HyphenateCamel(_, _)
\* str.replace(/([a-z])([A-Z])/g, '$1-$2')
HyphenateCamel(s, i) ==
  IF i > Len(s) THEN << >>
  ELSE IF i < Len(s) /\ IsLower(s[i]) /\ IsUpper(s[i + 1])
    THEN << s[i], "-" >> \o HyphenateCamel(s, i + 1)
  ELSE << s[i] >> \o HyphenateCamel(s, i + 1)

RECURSIVE NonWordRun(_, _)
\* length of the run of characters outside [a-zA-Z0-9-] starting at i
NonWordRun(s, i) ==
  IF i <= Len(s) /\ ~(IsAlnum(s[i]) \/ s[i] = "-") THEN 1 + NonWordRun(s, i + 1) ELSE 0

RECURSIVE DashNonWord(_, _)
\* .replace(/[^a-zA-Z0-9-]+/g, '-'); the following .replace(/[\s_]+/g, '-')
\* finds nothing left to replace
DashNonWord(s, i) ==
  IF i > Len(s) THEN << >>
  ELSE IF IsAlnum(s[i]) \/ s[i] = "-" THEN << s[i] >> \o DashNonWord(s, i + 1)
  ELSE << "-" >> \o DashNonWord(s, i + NonWordRun(s, i))

RECURSIVE StripLeadingDashes(_)
StripLeadingDashes(s) ==
  IF s # << >> /\ Head(s) = "-" THEN StripLeadingDashes(Tail(s)) ELSE s

RECURSIVE StripTrailingDashes(_)
StripTrailingDashes(s) ==
  IF s # << >> /\ s[Len(s)] = "-"
    THEN StripTrailingDashes(SubSeq(s, 1, Len(s) - 1)) ELSE s

RECURSIVE MergeDashes(_)
\* .replace(/-+/g, '-')
MergeDashes(s) ==
  IF Len(s) < 2 THEN s
  ELSE IF s[1] = "-" /\ s[2] = "-" THEN MergeDashes(Tail(s))
  ELSE << s[1] >> \o MergeDashes(Tail(s))

toKebabCase(str) ==
  IF str = << >> THEN << >>
  ELSE toLowerCase(MergeDashes(StripTrailingDashes(StripLeadingDashes(
         DashNonWord(HyphenateCamel(str, 1), 1)))))

ReservedKeywords ==
  { <<"b","r","e","a","k">>, <<"c","a","s","e">>,
    <<"c","a","t","c","h">>, <<"c","l","a","s","s">>,
    <<"c","o","n","s","t">>, <<"c","o","n","t","i","n","u","e">>,
    <<"d","e","b","u","g","g","e","r">>, <<"d","e","f","a","u","l","t">>,
    <<"d","e","l","e","t","e">>, <<"d","o">>, <<"e","l","s","e">>,
    <<"e","x","p","o","r","t">>, <<"e","x","t","e","n","d","s">>,
    <<"f","i","n","a","l","l","y">>, <<"f","o","r">>,
    <<"f","u","n","c","t","i","o","n">>, <<"i","f">>,
    <<"i","m","p","o","r","t">>, <<"i","n">>,
    <<"i","n","s","t","a","n","c","e","o","f">>, <<"n","e","w">>,
    <<"r","e","t","u","r","n">>, <<"s","u","p","e","r">>,
    <<"s","w","i","t","c","h">>, <<"t","h","i","s">>,
    <<"t","h","r","o","w">>, <<"t","r","y">>,
    <<"t","y","p","e","o","f">>, <<"v","a","r">>, <<"v","o","i","d">>,
    <<"w","h","i","l","e">>, <<"w","i","t","h">>,
    <<"y","i","e","l","d">>, <<"e","n","u","m">>,
    <<"i","m","p","l","e","m","e","n","t","s">>,
    <<"i","n","t","e","r","f","a","c","e">>, <<"l","e","t">>,
    <<"p","a","c","k","a","g","e">>, <<"p","r","i","v","a","t","e">>,
    <<"p","r","o","t","e","c","t","e","d">>, <<"p","u","b","l","i","c">>,
    <<"s","t","a","t","i","c">>, <<"a","w","a","i","t">>,
    <<"a","b","s","t","r","a","c","t">>, <<"b","o","o","l","e","a","n">>,
    <<"b","y","t","e">>, <<"c","h","a","r">>,
    <<"d","o","u","b","l","e">>, <<"f","i","n","a","l">>,
    <<"f","l","o","a","t">>, <<"g","o","t","o">>, <<"i","n","t">>,
    <<"l","o","n","g">>, <<"n","a","t","i","v","e">>,
    <<"s","h","o","r","t">>,
    <<"s","y","n","c","h","r","o","n","i","z","e","d">>,
    <<"t","h","r","o","w","s">>, <<"t","r","a","n","s","i","e","n","t">>,
    <<"v","o","l","a","t","i","l","e">> }

ValueText == << "V","a","l","u","e" >>

sanitizeVariableName(name) ==
  IF name = << >> THEN ItemText
  ELSE IF name \in ReservedKeywords THEN name \o ValueText
  ELSE name


(***************************************************************************)
(* Design nodes.  A document is a function from node id to node record;   *)
(* node 1 is the root handed to generate, children are sequences of ids.   *)
(* charsKind tells whether node.characters is absent, a string or a value  *)
(* of another type (malformed input).                                      *)
(***************************************************************************)
RootId == 1

\* node.type?.toLowerCase()
LowerType(t) ==
  CASE t = "FRAME" -> "frame"
    [] t = "GROUP" -> "group"
    [] t = "TEXT" -> "text"
    [] t = "RECTANGLE" -> "rectangle"
    [] t = "COMPONENT" -> "component"
    [] t = "INSTANCE" -> "instance"
    [] OTHER -> t

RECURSIVE Subtree(_, _)
\* the ids of node n and all its descendants
Subtree(tree, n) ==
  {n} \cup UNION { Subtree(tree, tree[n].children[i]) : i \in DOMAIN tree[n].children }

(***************************************************************************)
(* JavaScript Map objects: the entry list of the Map, in insertion order.  *)
(* Map.prototype.clear empties every entry of the list in place and keeps  *)
(* the list, so an iterator created before the clear goes on to the        *)
(* entries that are set afterwards.                                        *)
(***************************************************************************)
EmptyKey == 0
Tombstone == [key |-> EmptyKey]

MapHas(entries, k) == \E i \in DOMAIN entries : entries[i].key = k
MapGet(entries, k) == entries[CHOOSE i \in DOMAIN entries : entries[i].key = k].val
MapSet(entries, k, v) ==
  IF MapHas(entries, k)
    THEN [ i \in DOMAIN entries |->
             IF entries[i].key = k THEN [key |-> k, val |-> v] ELSE entries[i] ]
  ELSE Append(entries, [key |-> k, val |-> v])
MapClear(entries) == [ i \in DOMAIN entries |-> Tombstone ]
\* new Map(m): the live entries, in order
MapCopy(entries) == SelectSeq(entries, LAMBDA e : e.key # EmptyKey)
MapSize(entries) == Len(MapCopy(entries))
MapKeys(entries) == { entries[i].key : i \in DOMAIN entries } \ {EmptyKey}
\* position of the first live entry after position idx, or 0 when the
\* iteration is finished
NextLive(entries, idx) ==
  IF \E i \in DOMAIN entries : i > idx /\ entries[i].key # EmptyKey
    THEN CHOOSE i \in DOMAIN entries :
           /\ i > idx /\ entries[i].key # EmptyKey
           /\ \A j \in DOMAIN entries : (j > idx /\ entries[j].key # EmptyKey) => i <= j
  ELSE 0

(***************************************************************************)
(* InteractiveElementAnalyzer                                              *)
(***************************************************************************)
ButtonKeywords ==
  { <<"b","u","t","t","o","n">>, <<"b","t","n">>,
    <<"c","l","i","c","k">>, <<"s","u","b","m","i","t">>,
    <<"c","o","n","f","i","r","m">>, <<"c","a","n","c","e","l">>,
    <<"o","k">>, <<"a","p","p","l","y">> }

InputKeywords ==
  { <<"i","n","p","u","t">>, <<"t","e","x","t","f","i","e","l","d">>,
    <<"t","e","x","t","-","f","i","e","l","d">>, <<"f","o","r","m">>,
    <<"s","e","a","r","c","h">>, <<"t","e","x","t","a","r","e","a">> }

isButton(name) == IncludesAny(name, ButtonKeywords)
isInput(name) == IncludesAny(name, InputKeywords)
\* the two localized terms of isAccordion and the one of isSwitch are outside
\* the modelled alphabet
isAccordion(name) == Includes(name, <<"a","c","c","o","r","d","i","o","n">>)
isCollapsible(name) ==
  \/ Includes(name, <<"c","o","l","l","a","p","s","e">>)
  \/ Includes(name, <<"c","o","l","l","a","p","s","i","b","l","e">>)
  \/ Includes(name, <<"e","x","p","a","n","d">>)
isToggle(name) ==
  \/ Includes(name, <<"t","o","g","g","l","e">>)
  \/ Includes(name, <<"s","w","i","t","c","h">>)
isSwitch(name) == Includes(name, <<"s","w","i","t","c","h">>)

ButtonText == <<"b","u","t","t","o","n">>
InputText == <<"i","n","p","u","t">>
AccordionText == <<"a","c","c","o","r","d","i","o","n">>
ToggleText == <<"t","o","g","g","l","e">>

\* sanitizeVariableName(toCamelCase(node.name || fallback))
DerivedId(name, fallback) ==
  sanitizeVariableName(toCamelCase(IF name = << >> THEN fallback ELSE name))

\* stateVariables.push(...); defaultValue is kept as its text, "" for the
\* empty string and "false" for the boolean
PushState(sv, v) == Append(sv, v)
\* eventHandlers.push(...)
PushHandler(eh, h) == Append(eh, h)

\* one registration: interactiveElements.set, then the pushes of its branch;
\* acc = [ie |-> entries of interactiveElements, sv |-> stateVariables,
\*        eh |-> eventHandlers]
Register(acc, nodeId, type, id, name, stateType, defaultValue, handlerName) ==
  [ie |-> MapSet(acc.ie, nodeId, [type |-> type, id |-> id, name |-> name]),
   sv |-> IF stateType = "none" THEN acc.sv
          ELSE PushState(acc.sv, [id |-> id, type |-> stateType, defaultValue |-> defaultValue]),
   eh |-> PushHandler(acc.eh, [id |-> id, handlerName |-> handlerName])]

\* the button test with the pushes of the toggle branch
DetectButtonStateful(node, nodeId, nodeName, acc) ==
  IF isButton(nodeName)
    THEN Register(acc, nodeId, "button", DerivedId(node.name, ButtonText), node.name,
                  "boolean", "false", "handleClick")
  ELSE acc

\* the button test: an event handler and no state variable
DetectButton(node, nodeId, nodeName, acc) ==
  IF isButton(nodeName)
    THEN Register(acc, nodeId, "button", DerivedId(node.name, ButtonText), node.name,
                  "none", "", "handleClick")
  ELSE acc

\* the input test
DetectInput(node, nodeId, nodeName, acc) ==
  IF isInput(nodeName)
    THEN Register(acc, nodeId, "input", DerivedId(node.name, InputText), node.name,
                  "string", "", "handleChange")
  ELSE acc

\* the accordion / collapsible test
DetectAccordion(node, nodeId, nodeName, acc) ==
  IF isAccordion(nodeName) \/ isCollapsible(nodeName)
    THEN Register(acc, nodeId, "accordion", DerivedId(node.name, AccordionText), node.name,
                  "boolean", "false", "handleToggle")
  ELSE acc

\* the toggle / switch test
DetectToggle(node, nodeId, nodeName, acc) ==
  IF isToggle(nodeName) \/ isSwitch(nodeName)
    THEN Register(acc, nodeId, "toggle", DerivedId(node.name, ToggleText), node.name,
                  "boolean", "false", "handleToggle")
  ELSE acc

\* the registrations of one node, in the order of the four tests
AnalyzeNode(node, nodeId, acc) ==
  DetectToggle(node, nodeId, toLowerCase(node.name),
    DetectAccordion(node, nodeId, toLowerCase(node.name),
      DetectInput(node, nodeId, toLowerCase(node.name),
        DetectButton(node, nodeId, toLowerCase(node.name), acc))))

\* analyze without the recursion into the children
analyzeNodeOnly(tree, n, acc) == AnalyzeNode(tree[n], n, acc)

RECURSIVE analyze(_, _, _)
\* InteractiveElementAnalyzer.analyze: the node, then its children in order
analyze(tree, n, acc) ==
  LET RECURSIVE Kids(_, _)
      Kids(i, a) == IF i > Len(tree[n].children) THEN a
                    ELSE Kids(i + 1, analyze(tree, tree[n].children[i], a))
  IN Kids(1, AnalyzeNode(tree[n], n, acc))

(***************************************************************************)
(* ComponentAnalyzer                                                       *)
(***************************************************************************)
ComponentKeywords ==
  { <<"c","a","r","d">>, <<"i","t","e","m">>,
    <<"l","i","s","t","-","i","t","e","m">>,
    <<"l","i","s","t","i","t","e","m">>, <<"r","o","w">>,
    <<"c","e","l","l">>, <<"h","e","a","d","e","r">>,
    <<"f","o","o","t","e","r">>, <<"s","i","d","e","b","a","r">>,
    <<"n","a","v">>, <<"m","e","n","u">>,
    <<"b","u","t","t","o","n","-","g","r","o","u","p">>,
    <<"f","o","r","m","-","g","r","o","u","p">>,
    <<"i","n","p","u","t","-","g","r","o","u","p">>,
    <<"m","o","d","a","l">>, <<"d","i","a","l","o","g">>,
    <<"p","o","p","u","p">>, <<"a","c","c","o","r","d","i","o","n">>,
    <<"t","a","b">>, <<"t","a","b","-","i","t","e","m">>,
    <<"p","a","n","e","l">>, <<"s","e","c","t","i","o","n">>,
    <<"w","i","d","g","e","t">>, <<"b","l","o","c","k">>,
    <<"b","o","x">>, <<"c","o","n","t","a","i","n","e","r">>,
    <<"w","r","a","p","p","e","r">> }

isComponentCandidate(name) == IncludesAny(name, ComponentKeywords)

\* identify considers the repeated-structure rule only for nodes with at
\* least this many children
MinRepeatedChildren == 3
\* ... and only above this depth
MaxRepeatedDepth == 3

hasRepeatedStructure(tree, n) ==
  LET kids == tree[n].children IN
  IF Len(kids) < 2 THEN FALSE
  ELSE LET first == tree[kids[1]]
           second == tree[kids[2]]
           d == Len(first.children) - Len(second.children)
       IN first.type = second.type /\ d <= 1 /\ -d <= 1

\* whether identify registers node n, examined at the given depth
ShouldComponentize(tree, n, depth) ==
  LET nodeName == toLowerCase(tree[n].name)
      nodeType == LowerType(tree[n].type)
  IN \/ nodeType = "component" \/ nodeType = "instance"
     \/ isComponentCandidate(nodeName)
     \/ /\ Len(tree[n].children) >= MinRepeatedChildren
        /\ depth < MaxRepeatedDepth
        /\ hasRepeatedStructure(tree, n)

RECURSIVE identifyDescending(_, _, _, _, _)
\* identify without the return after a registration: the children of a
\* registered node are examined as well
identifyDescending(tree, n, depth, parentId, acc) ==
  LET Registered(counter) ==
        [comps |-> MapSet(acc.comps, n,
                     [name |-> toPascalCase(IF tree[n].name = << >>
                                              THEN ComponentText \o Digits(counter)
                                            ELSE tree[n].name),
                      node |-> n, parentId |-> parentId]),
         counter |-> counter]
      RECURSIVE Kids(_, _)
      Kids(i, a) ==
        IF i > Len(tree[n].children) THEN a
        ELSE Kids(i + 1, identifyDescending(tree, tree[n].children[i], depth + 1, n, a))
  IN Kids(1, IF ShouldComponentize(tree, n, depth)
               THEN Registered(IF tree[n].name = << >> THEN acc.counter + 1 ELSE acc.counter)
             ELSE acc)

RECURSIVE identify(_, _, _, _, _)
\* ComponentAnalyzer.identify; acc = [comps |-> entries of components,
\* counter |-> componentCounter.value].  A registered node is not descended.
identify(tree, n, depth, parentId, acc) ==
  IF ShouldComponentize(tree, n, depth)
    THEN LET unnamed == tree[n].name = << >>
             counter == IF unnamed THEN acc.counter + 1 ELSE acc.counter
             componentName ==
               toPascalCase(IF unnamed THEN ComponentText \o Digits(counter)
                            ELSE tree[n].name)
         IN [comps |-> MapSet(acc.comps, n,
                         [name |-> componentName, node |-> n, parentId |-> parentId]),
             counter |-> counter]
  ELSE LET RECURSIVE Kids(_, _)
           Kids(i, a) == IF i > Len(tree[n].children) THEN a
                         ELSE Kids(i + 1, identify(tree, tree[n].children[i], depth + 1, n, a))
       IN Kids(1, acc)


(***************************************************************************)
(* nodeUtils.js                                                            *)
(***************************************************************************)
\* opacity is kept in percent; Undefined stands for an absent number
Undefined == -1
\* detectHorizontalLayout: two children are in one row when their y differ by
\* less, and their x by more, than this many pixels
LayoutTolerance == 10

VisibleOnly(paints) == SelectSeq(paints, LAMBDA f : f.visible)

\* preprocessNode of one node with its parent (0 for the root): writes
\* relativeBoundingBox and filters fills and strokes, in place
PreprocessOne(tree, n, parent) ==
  LET node == tree[n]
      rel == IF parent # 0 /\ node.bbox.defined /\ tree[parent].bbox.defined
               THEN [defined |-> TRUE,
                     x |-> node.bbox.x - tree[parent].bbox.x,
                     y |-> node.bbox.y - tree[parent].bbox.y,
                     width |-> node.bbox.width, height |-> node.bbox.height]
             ELSE node.rel
  IN [node EXCEPT !.rel = rel,
                  !.fills = VisibleOnly(node.fills),
                  !.strokes = VisibleOnly(node.strokes)]

ParentOf(tree, n) ==
  IF \E m \in DOMAIN tree : \E i \in DOMAIN tree[m].children : tree[m].children[i] = n
    THEN CHOOSE m \in DOMAIN tree : \E i \in DOMAIN tree[m].children : tree[m].children[i] = n
  ELSE 0

\* preprocessNode(figmaData): every node of the document is rewritten in
\* place (the documents of the model hold no null child to drop)
preprocessNode(tree) ==
  [ n \in DOMAIN tree |-> PreprocessOne(tree, n, ParentOf(tree, n)) ]

mapFigmaTypeToHTML(t) ==
  CASE t = "text" -> "p"
    [] t = "vector" -> "svg"
    [] OTHER -> "div"

SelfClosingTags == {"img", "input", "br", "hr", "meta", "link"}
isSelfClosing(tagName) == tagName \in SelfClosingTags

RECURSIVE escapeHTML(_)
escapeHTML(text) ==
  IF text = << >> THEN << >>
  ELSE (CASE Head(text) = "&" -> <<"&","a","m","p",";">>
          [] Head(text) = "<" -> <<"&","l","t",";">>
          [] Head(text) = ">" -> <<"&","g","t",";">>
          [] Head(text) = "\"" -> <<"&","q","u","o","t",";">>
          [] Head(text) = "'" -> <<"&","#","0","3","9",";">>
          [] OTHER -> << Head(text) >>) \o escapeHTML(Tail(text))

(***************************************************************************)
(* JSXTransformer.  Markup is a sequence of lines; each line is a record  *)
(* k: "open" | "close" | "elem" (an element without child lines) | "void" *)
(* (self-closed tag) | "ref" (self-closed component reference) | "textel" *)
(* (text element) | "text" (bare escaped text) | "blank" (empty line);    *)
(* node is the id of the node the line was rendered for.                   *)
(***************************************************************************)
Line(k, node, tag, cls, props, text, depth) ==
  [k |-> k, node |-> node, tag |-> tag, cls |-> cls, props |-> props,
   text |-> text, depth |-> depth]

BlankLine == Line("blank", 0, << >>, << >>, << >>, << >>, 0)

Chars(tag) ==
  CASE tag = "div" -> <<"d","i","v">>
    [] tag = "p" -> <<"p">>
    [] tag = "svg" -> <<"s","v","g">>
    [] tag = "button" -> <<"b","u","t","t","o","n">>
    [] tag = "input" -> <<"i","n","p","u","t">>

\* a rendering with no character outside white space: children.trim() is ''
IsBlankLine(l) == l.k = "blank" \/ (l.k = "text" /\ Trim(l.text) = << >>)
HasContent(lines) == \E i \in DOMAIN lines : ~IsBlankLine(lines[i])

FrameText == <<"f","r","a","m","e","-">>

\* /^frame-\d+$/.test(name)
IsFrameNumber(name) ==
  /\ Len(name) > Len(FrameText)
  /\ SubSeq(name, 1, Len(FrameText)) = FrameText
  /\ \A i \in (Len(FrameText) + 1)..Len(name) : IsDigit(name[i])

GroupText == <<"g","r","o","u","p">>
ContainerText == <<"c","o","n","t","a","i","n","e","r">>
WrapperText == <<"w","r","a","p","p","e","r">>
\* inferSemanticName reads this many characters of the first child's text
MaxInferLen == 20

HasTruthyChars(node) == node.charsKind # "absent" /\ node.characters # << >>

\* whether getClassName asks inferSemanticName for the name
NeedsInferredName(node) ==
  LET Meaningless(name) == IsFrameNumber(name) \/ name = GroupText \/ name = ContainerText
  IN node.name # << >> /\ Meaningless(toKebabCase(node.name))

\* inferSemanticName calls characters.toLowerCase() of the first child: a
\* TypeError when characters is not a string
inferSemanticNameThrows(tree, n) ==
  /\ tree[n].children # << >>
  /\ LET firstChild == tree[tree[n].children[1]]
     IN firstChild.type = "TEXT" /\ firstChild.charsKind = "number"

\* << >> stands for null
inferSemanticName(tree, n) ==
  LET node == tree[n]
      kids == node.children
      byLayout == CASE node.layoutMode = "HORIZONTAL" -> <<"r","o","w">>
                    [] node.layoutMode = "VERTICAL" -> <<"c","o","l","u","m","n">>
                    [] OTHER -> << >>
  IN IF kids # << >>
       THEN LET firstChild == tree[kids[1]] IN
            IF firstChild.type = "TEXT" /\ HasTruthyChars(firstChild)
              THEN LET lower == toLowerCase(firstChild.characters)
                   IN toKebabCase(SubSeq(lower, 1,
                        IF Len(lower) < MaxInferLen THEN Len(lower) ELSE MaxInferLen))
            ELSE IF \E i \in DOMAIN kids : Includes(toLowerCase(tree[kids[i]].name), ButtonText)
              THEN <<"b","u","t","t","o","n","-","g","r","o","u","p">>
            ELSE IF \E i \in DOMAIN kids : Includes(toLowerCase(tree[kids[i]].name), InputText)
              THEN <<"i","n","p","u","t","-","g","r","o","u","p">>
            ELSE byLayout
     ELSE byLayout

getClassNameThrows(tree, n) ==
  NeedsInferredName(tree[n]) /\ inferSemanticNameThrows(tree, n)

\* getClassName: the class name, << >> when the node has no name
getClassName(tree, n) ==
  LET OrNodeId(b) == IF b = << >> THEN <<"n","o","d","e","-">> \o Digits(n) ELSE b
      LetterFirst(a) ==
        OrNodeId(IF a # << >> /\ IsDigit(Head(a)) THEN <<"e","l","-">> \o a ELSE a)
      OrWrapper(inferred) == IF inferred # << >> THEN inferred ELSE WrapperText
  IN IF tree[n].name = << >> THEN << >>
     ELSE LetterFirst(IF NeedsInferredName(tree[n])
                        THEN OrWrapper(inferSemanticName(tree, n))
                      ELSE toKebabCase(tree[n].name))

shouldSkipNode(tree, n, ie) ==
  LET node == tree[n] IN
  /\ LowerType(node.type) = "group"
  /\ ~( \/ Len(node.fills) > 0
        \/ Len(node.strokes) > 0
        \/ node.cornerRadius > 0
        \/ (node.opacity # Undefined /\ node.opacity < 100) )
  /\ ~MapHas(ie, n)
  /\ Len(node.children) = 1

hasMeaningfulStyle(node) ==
  \/ Len(node.fills) > 0
  \/ Len(node.strokes) > 0
  \/ node.cornerRadius > 0
  \/ node.layoutMode \in {"HORIZONTAL", "VERTICAL"}
  \/ \E i \in DOMAIN node.padding : node.padding[i] # 0
  \/ (node.opacity # Undefined /\ node.opacity < 100)
  \/ node.position \in {"ABSOLUTE", "RELATIVE"}
  \/ node.bbox.defined

HandleText == <<"h","a","n","d","l","e">>
ChangeText == <<"C","h","a","n","g","e">>
ToggleSuffix == <<"T","o","g","g","l","e">>

\* the props and event bindings with the input's value always read from a
\* slot of its own
InteractivePropsBare(el, useObjectState) ==
  CASE el.type = "button" ->
         << [p |-> "onClick", obj |-> FALSE, v |-> HandleText \o toPascalCase(el.id)] >>
    [] el.type = "input" ->
         << [p |-> "type", obj |-> FALSE, v |-> <<"t","e","x","t">>],
            [p |-> "value", obj |-> FALSE, v |-> sanitizeVariableName(el.id)],
            [p |-> "onChange", obj |-> FALSE,
             v |-> HandleText \o toPascalCase(el.id) \o ChangeText] >>
    [] OTHER ->
         << [p |-> "onClick", obj |-> FALSE,
             v |-> HandleText \o toPascalCase(el.id) \o ToggleSuffix] >>

\* the props and event bindings of an interactive element; obj tells that a
\* value is read from the state object
InteractiveProps(el, useObjectState) ==
  CASE el.type = "button" ->
         << [p |-> "onClick", obj |-> FALSE, v |-> HandleText \o toPascalCase(el.id)] >>
    [] el.type = "input" ->
         << [p |-> "type", obj |-> FALSE, v |-> <<"t","e","x","t">>],
            [p |-> "value", obj |-> useObjectState, v |-> sanitizeVariableName(el.id)],
            [p |-> "onChange", obj |-> FALSE,
             v |-> HandleText \o toPascalCase(el.id) \o ChangeText] >>
    [] OTHER ->
         << [p |-> "onClick", obj |-> FALSE,
             v |-> HandleText \o toPascalCase(el.id) \o ToggleSuffix] >>

Failed == [err |-> TRUE, out |-> << >>]
Rendered(lines) == [err |-> FALSE, out |-> lines]

\* the decision of the component check of transform: whether node n is
\* replaced by a reference tag while the unit currentComponentName is rendered
IsReference(comps, n, currentComponentName) ==
  MapHas(comps, n) /\ MapGet(comps, n).name # currentComponentName

RECURSIVE transform(_, _, _, _, _, _, _)
\* JSXTransformer.transform(node, depth, currentComponentName) of a
\* transformer built with (interactiveElements, components, useObjectState).
\* err tells that a TypeError was thrown.
transform(tree, n, depth, cur, ie, comps, uos) ==
  LET node == tree[n]
      nodeType == LowerType(node.type)
      interactive == MapHas(ie, n)
      \* one child's rendering followed by the renderings of the later
      \* children, an empty rendering being one empty line of the joined text
      Joined(c, rest) ==
        IF c.err \/ rest.err THEN Failed
        ELSE Rendered((IF c.out = << >> THEN << BlankLine >> ELSE c.out) \o rest.out)
      RECURSIVE Kids(_)
      \* node.children.map(child => this.transform(child, depth + 1, ...))
      Kids(i) ==
        IF i > Len(node.children) THEN Rendered(<< >>)
        ELSE Joined(transform(tree, node.children[i], depth + 1, cur, ie, comps, uos),
                    Kids(i + 1))
      \* the returns after the children were rendered
      Element(tagName, props, className, kids, hasKidText) ==
        IF isSelfClosing(tagName)
          THEN IF hasKidText
                 THEN Rendered(<< Line("open", n, Chars("div"), className, << >>, << >>, depth),
                                  Line("void", n, Chars(tagName), << >>, props, << >>, depth + 1) >>
                               \o kids
                               \o << BlankLine,
                                     Line("close", n, Chars("div"), << >>, << >>, << >>, depth) >>)
               ELSE Rendered(<< Line("void", n, Chars(tagName), className, props, << >>, depth) >>)
        ELSE IF ~hasMeaningfulStyle(node) /\ ~hasKidText /\ ~interactive
          THEN Rendered(<< >>)
        ELSE IF /\ hasKidText /\ Len(node.children) = 1 /\ ~hasMeaningfulStyle(node)
                /\ tree[node.children[1]].type = "TEXT"
                /\ HasTruthyChars(tree[node.children[1]])
          THEN IF tree[node.children[1]].charsKind = "number" THEN Failed
               ELSE Rendered(<< Line("text", node.children[1], << >>, << >>, << >>,
                                     escapeHTML(tree[node.children[1]].characters), depth) >>)
        ELSE IF node.children = << >>
          THEN Rendered(<< Line("elem", n, Chars(tagName), className, props, << >>, depth) >>)
        ELSE Rendered(<< Line("open", n, Chars(tagName), className, props, << >>, depth) >>
                      \o kids
                      \o << Line("close", n, Chars(tagName), << >>, << >>, << >>, depth) >>)
      \* the text element, or the element around the rendered children
      Tagged(tagName, props, className, kids) ==
        IF nodeType = "text" /\ HasTruthyChars(node)
          THEN IF node.charsKind = "number" THEN Failed
               ELSE Rendered(<< Line("textel", n, Chars(tagName), className, props,
                                     escapeHTML(node.characters), depth) >>)
        ELSE IF kids.err THEN Failed
        ELSE Element(tagName, props, className, kids.out, HasContent(kids.out))
      \* tag, props and event bindings of the interactive element el
      Interactive(el) ==
        Tagged(CASE el.type = "button" -> "button"
                 [] el.type = "input" -> "input"
                 [] OTHER -> mapFigmaTypeToHTML(nodeType),
               IF interactive THEN InteractiveProps(el, uos) ELSE << >>,
               getClassName(tree, n),
               Kids(1))
  IN
  IF shouldSkipNode(tree, n, ie) /\ Len(node.children) = 1
    THEN transform(tree, node.children[1], depth, cur, ie, comps, uos)
  ELSE IF IsReference(comps, n, cur)
    THEN IF getClassNameThrows(tree, n) THEN Failed
         ELSE Rendered(<< Line("ref", n, MapGet(comps, n).name, getClassName(tree, n),
                               << >>, << >>, depth) >>)
  ELSE IF getClassNameThrows(tree, n) THEN Failed
  ELSE Interactive(IF interactive THEN MapGet(ie, n) ELSE [type |-> "none"])

RECURSIVE format(_)
\* JSXTransformer.format: an empty line followed by an empty line is dropped
format(lines) ==
  IF Len(lines) < 2 THEN lines
  ELSE IF IsBlankLine(lines[1]) /\ IsBlankLine(lines[2]) THEN format(Tail(lines))
  ELSE << lines[1] >> \o format(Tail(lines))


(***************************************************************************)
(* CSSTransformer.  A rule is [selectors, body]; a declaration of a body  *)
(* is [prop, val] with val a number (pixels, percent, a colour id).  The   *)
(* node attributes outside the node record of this model (constraints,     *)
(* font style, item spacing, clipping, min/max sizes) are absent from      *)
(* every modelled node, so their declarations are never emitted.           *)
(***************************************************************************)
Decl(prop, val) == [prop |-> prop, val |-> val]

\* a fill or stroke that yields a colour: SOLID and not fully transparent
Paints(p) == p.type = "SOLID" /\ p.visible /\ p.color # 0

nodeToCSS(tree, n) ==
  LET node == tree[n]
      isText == node.type = "TEXT"
      padded == \E i \in DOMAIN node.padding : node.padding[i] # 0
      uniform == \A i \in DOMAIN node.padding : node.padding[i] = node.padding[1]
  IN (IF Len(node.strokes) > 0 \/ padded THEN << Decl("box-sizing", 0) >> ELSE << >>)
  \o (IF node.bbox.defined /\ node.bbox.width # 0 /\ isText
        THEN << Decl("width", node.bbox.width) >> ELSE << >>)
  \o (IF node.bbox.defined /\ node.bbox.height # 0 /\ isText
        THEN << Decl("height", node.bbox.height) >> ELSE << >>)
  \o (IF ~isText /\ Len(node.fills) > 0 /\ Paints(node.fills[1])
        THEN << Decl("background-color", node.fills[1].color) >> ELSE << >>)
  \o (IF Len(node.strokes) > 0 /\ node.strokes[1].type = "SOLID"
        THEN << Decl("border", node.strokes[1].color) >> ELSE << >>)
  \o (IF node.cornerRadius > 0 THEN << Decl("border-radius", node.cornerRadius) >> ELSE << >>)
  \o (IF padded
        THEN (IF uniform THEN << Decl("padding", node.padding[1]) >>
              ELSE [ i \in DOMAIN node.padding |-> Decl("padding-side", node.padding[i]) ])
      ELSE << >>)
  \o (IF node.layoutMode \in {"HORIZONTAL", "VERTICAL"}
        THEN << Decl("display-flex", 0),
                Decl(IF node.layoutMode = "HORIZONTAL" THEN "flex-direction-row"
                     ELSE "flex-direction-column", 0) >>
      ELSE IF Len(node.children) > 1
        THEN LET a == tree[node.children[1]].bbox
                 b == tree[node.children[2]].bbox
                 yDiff == IF b.y >= a.y THEN b.y - a.y ELSE a.y - b.y
                 xDiff == IF b.x >= a.x THEN b.x - a.x ELSE a.x - b.x
             IN IF a.defined /\ b.defined /\ yDiff < LayoutTolerance /\ xDiff > LayoutTolerance
                  THEN << Decl("display-flex", 0), Decl("flex-direction-row", 0) >>
                ELSE IF Len(node.children) > 2
                  THEN << Decl("display-flex", 0), Decl("flex-direction-column", 0) >>
                ELSE << >>
      ELSE << >>)
  \o (CASE node.position = "ABSOLUTE" -> << Decl("position-absolute", 0) >>
        [] node.position = "RELATIVE" -> << Decl("position-relative", 0) >>
        [] OTHER -> << >>)
  \o (IF node.opacity # Undefined /\ node.opacity < 100
        THEN << Decl("opacity", node.opacity) >> ELSE << >>)
  \o (IF isText THEN << Decl("white-space", 0), Decl("word-wrap", 0) >> ELSE << >>)

\* getStyleKey: << >> stands for null
getStyleKey(tree, n) ==
  LET node == tree[n]
      padded == \E i \in DOMAIN node.padding : node.padding[i] # 0
      firstFill == Len(node.fills) > 0 /\ node.fills[1].type = "SOLID" /\ node.fills[1].visible
  IN (IF node.bbox.defined /\ node.bbox.width # 0 THEN << Decl("w", node.bbox.width) >> ELSE << >>)
  \o (IF node.bbox.defined /\ node.bbox.height # 0 THEN << Decl("h", node.bbox.height) >> ELSE << >>)
  \o (IF firstFill THEN << Decl("bg", node.fills[1].color) >> ELSE << >>)
  \o (IF node.type = "TEXT" /\ firstFill THEN << Decl("color", node.fills[1].color) >> ELSE << >>)
  \o (IF node.cornerRadius # 0 THEN << Decl("radius", node.cornerRadius) >> ELSE << >>)
  \o (IF node.layoutMode # "NONE" THEN << Decl(node.layoutMode, 0) >> ELSE << >>)
  \o (IF Len(node.strokes) > 0 /\ node.strokes[1].type = "SOLID" /\ node.strokes[1].visible
        THEN << Decl("border", node.strokes[1].color) >> ELSE << >>)
  \o (IF padded THEN [ i \in DOMAIN node.padding |-> Decl("pad", node.padding[i]) ] ELSE << >>)

\* one step of extractStyles at node n; st = [seen |-> processedClasses,
\* groups |-> styleGroups (one per key of styleMap), single |-> styles]
ExtractNode(tree, n, st) ==
  LET Grouped(className, style, styleKey, st1) ==
        IF ~(tree[n].type = "TEXT" \/ tree[n].bbox.defined) \/ style = << >> THEN st1
        ELSE IF styleKey = << >>
          THEN [st1 EXCEPT !.single = Append(@, [selectors |-> << className >>, body |-> style])]
        ELSE IF \E i \in DOMAIN st1.groups : st1.groups[i].key = styleKey
          THEN [st1 EXCEPT !.groups =
                  [ i \in DOMAIN st1.groups |->
                      LET g == st1.groups[i] IN
                      IF g.key = styleKey /\ className \notin Range(g.selectors)
                        THEN [key |-> g.key, selectors |-> Append(g.selectors, className),
                              body |-> g.body]
                      ELSE g ]]
        ELSE [st1 EXCEPT !.groups =
                Append(st1.groups,
                       [key |-> styleKey, selectors |-> << className >>, body |-> style])]
      Named(className) ==
        IF className = << >> \/ className \in st.seen THEN st
        ELSE Grouped(className, nodeToCSS(tree, n), getStyleKey(tree, n),
                     [st EXCEPT !.seen = @ \cup {className}])
  IN Named(getClassName(tree, n))

RECURSIVE extractStyles(_, _, _)
extractStyles(tree, n, st) ==
  LET RECURSIVE Kids(_, _)
      Kids(i, a) == IF i > Len(tree[n].children) THEN a
                    ELSE Kids(i + 1, extractStyles(tree, tree[n].children[i], a))
  IN Kids(1, ExtractNode(tree, n, st))

\* getClassName without its test for a missing name: toKebabCase(undefined)
cssThrowsOnUnnamed(tree, n) == \E m \in Subtree(tree, n) : tree[m].name = << >>

\* CSSTransformer.generate throws where its getClassName throws
cssThrows(tree, n) == \E m \in Subtree(tree, n) : getClassNameThrows(tree, m)

\* CSSTransformer.generate(node, componentName): the rules after the fixed
\* reset block, grouped rules first, then the rules without style key
cssGenerate(tree, n) ==
  LET Rules(st) ==
        [ i \in DOMAIN st.groups |->
            [selectors |-> st.groups[i].selectors, body |-> st.groups[i].body] ]
        \o st.single
  IN Rules(extractStyles(tree, n, [seen |-> {}, groups |-> << >>, single |-> << >>]))

(***************************************************************************)
(* ReactTemplateGenerator and CodeGenerator.generateTypesFile              *)
(***************************************************************************)
\* the number of state variables, or of handlers, above which the state is
\* kept in one object, or the handlers are memoized
StateThreshold == 3

RECURSIVE ComponentImports(_, _, _)
\* one import per entry of components that is in usedComponentIds and is not
\* named like the unit itself
ComponentImports(comps, componentName, usedComponentIds) ==
  IF comps = << >> THEN << >>
  ELSE (IF Head(comps).key \notin usedComponentIds \/ Head(comps).val.name = componentName
          THEN << >> ELSE << Head(comps).val.name >>)
       \o ComponentImports(Tail(comps), componentName, usedComponentIds)

\* Array.from(interactiveElements.values()).find(el => el.id === id):
\* [type |-> "none"] when there is none
FindElement(ie, id) ==
  IF \E i \in DOMAIN ie : ie[i].val.id = id
    THEN ie[CHOOSE i \in DOMAIN ie :
              /\ ie[i].val.id = id
              /\ \A j \in DOMAIN ie : ie[j].val.id = id => i <= j].val
  ELSE [type |-> "none"]

HasStateVar(sv, id) == \E i \in DOMAIN sv : sv[i].id = id

\* the declaration generated for one event handler: << >> when the template
\* yields the empty text, which filter(Boolean) drops
HandlerDecl(h, ie, sv) ==
  LET Declared(el, handlerName) ==
        CASE el.type = "input" ->
               IF HasStateVar(sv, h.id)
                 THEN << [name |-> handlerName \o ChangeText, body |-> "set-value"] >> ELSE << >>
          [] el.type \in {"accordion", "toggle"} ->
               IF HasStateVar(sv, h.id)
                 THEN << [name |-> handlerName \o ToggleSuffix, body |-> "flip"] >> ELSE << >>
          [] el.type = "button" -> << [name |-> handlerName, body |-> "todo-click"] >>
          [] OTHER ->
               IF HasStateVar(sv, h.id) THEN << [name |-> handlerName, body |-> "flip"] >>
               ELSE << [name |-> handlerName, body |-> "todo"] >>
  IN Declared(FindElement(ie, h.id), HandleText \o toPascalCase(h.id))

RECURSIVE Handlers(_, _, _)
Handlers(eh, ie, sv) ==
  IF eh = << >> THEN << >>
  ELSE HandlerDecl(Head(eh), ie, sv) \o Handlers(Tail(eh), ie, sv)

\* ReactTemplateGenerator.generate; ie and comps are the live entries of the
\* two Maps
reactTemplate(componentName, jsx, ie, sv, eh, comps, useObjectState, useTypeScript, isSubComponent, usedComponentIds) ==
  [name |-> componentName,
   imports |-> ComponentImports(comps, componentName, usedComponentIds),
   optimized |-> Len(sv) > StateThreshold \/ Len(eh) > StateThreshold,
   typed |-> useTypeScript,
   stateTypeImported |-> useTypeScript /\ useObjectState,
   stateForm |-> IF Len(sv) = 0 THEN "none"
                 ELSE IF useObjectState THEN "object" ELSE "slots",
   state |-> [ i \in DOMAIN sv |->
                 [id |-> sanitizeVariableName(sv[i].id),
                  setter |-> <<"s","e","t">> \o toPascalCase(sanitizeVariableName(sv[i].id)),
                  type |-> sv[i].type, defaultValue |-> sv[i].defaultValue] ],
   handlers |-> Handlers(eh, ie, sv),
   namedExport |-> isSubComponent,
   jsx |-> format(jsx)]

\* CodeGenerator.generateTypesFile
generateTypesFile(componentName, ie, sv, eh) ==
  [name |-> componentName,
   state |-> [ i \in DOMAIN sv |-> [id |-> sanitizeVariableName(sv[i].id), type |-> sv[i].type] ],
   handlers |-> [ i \in DOMAIN eh |->
                    IF FindElement(ie, eh[i].id).type = "input"
                      THEN [name |-> HandleText \o toPascalCase(eh[i].id) \o ChangeText,
                            signature |-> "change"]
                    ELSE [name |-> HandleText \o toPascalCase(eh[i].id),
                          signature |-> "none"] ]]


(***************************************************************************)
(* CodeGenerator: the generation context and its save / reset / restore.   *)
(* m = [this, maps, counters]: the fields of the instance, the heap of Map *)
(* objects and the heap of counter objects { value }.  The fields          *)
(* interactiveElements, components and componentCounter hold addresses.    *)
(***************************************************************************)
\* new CodeGenerator(config): two empty Maps, two empty lists and a counter
\* object holding 0
NewGenerator ==
  [this |-> [interactiveElements |-> 1, stateVariables |-> << >>, eventHandlers |-> << >>,
             components |-> 2, componentCounter |-> 1, useObjectState |-> FALSE],
   maps |-> << << >>, << >> >>,
   counters |-> << 0 >>]

\* the object a heap holds at address a
Deref(heap, a) == Head(SubSeq(heap, a, a))

\* the contents the context fields refer to
ContextView(m) ==
  [interactiveElements |-> MapCopy(Deref(m.maps, m.this.interactiveElements)),
   stateVariables |-> m.this.stateVariables,
   eventHandlers |-> m.this.eventHandlers,
   components |-> MapCopy(Deref(m.maps, m.this.components)),
   componentCounter |-> Deref(m.counters, m.this.componentCounter),
   useObjectState |-> m.this.useObjectState]

\* resetState without emptying the two lists
resetStateKeepsLists(m) ==
  [this |-> [m.this EXCEPT !.useObjectState = FALSE],
   maps |-> [m.maps EXCEPT ![m.this.interactiveElements] = MapClear(@),
                           ![m.this.components] = MapClear(@)],
   counters |-> [m.counters EXCEPT ![m.this.componentCounter] = 0]]

\* resetState without clearing the interactiveElements Map
resetStateKeepsElements(m) ==
  [this |-> [m.this EXCEPT !.stateVariables = << >>,
                           !.eventHandlers = << >>,
                           !.useObjectState = FALSE],
   maps |-> [m.maps EXCEPT ![m.this.components] = MapClear(@)],
   counters |-> [m.counters EXCEPT ![m.this.componentCounter] = 0]]
\* resetState without the assignment to componentCounter.value
resetStateKeepsCounter(m) ==
  [this |-> [m.this EXCEPT !.stateVariables = << >>,
                           !.eventHandlers = << >>,
                           !.useObjectState = FALSE],
   maps |-> [m.maps EXCEPT ![m.this.interactiveElements] = MapClear(@),
                           ![m.this.components] = MapClear(@)],
   counters |-> m.counters]

resetState(m) ==
  [this |-> [m.this EXCEPT !.stateVariables = << >>,
                           !.eventHandlers = << >>,
                           !.useObjectState = FALSE],
   maps |-> [m.maps EXCEPT ![m.this.interactiveElements] = MapClear(@),
                           ![m.this.components] = MapClear(@)],
   counters |-> [m.counters EXCEPT ![m.this.componentCounter] = 0]]

\* saveState without copies: the snapshot refers to the live Maps and to the
\* live counter object
saveStateAliased(m) ==
  [m |-> m,
   state |-> [interactiveElements |-> m.this.interactiveElements,
              stateVariables |-> m.this.stateVariables,
              eventHandlers |-> m.this.eventHandlers,
              components |-> m.this.components,
              componentCounter |-> m.this.componentCounter,
              useObjectState |-> m.this.useObjectState]]

\* saveState: the snapshot refers to fresh copies of the two Maps and of the
\* counter object; the result is the heap after the allocation and the
\* snapshot
saveState(m) ==
  [m |-> [this |-> m.this,
          maps |-> m.maps \o << MapCopy(Deref(m.maps, m.this.interactiveElements)),
                                MapCopy(Deref(m.maps, m.this.components)) >>,
          counters |-> Append(m.counters, Deref(m.counters, m.this.componentCounter))],
   state |-> [interactiveElements |-> Len(m.maps) + 1,
              stateVariables |-> m.this.stateVariables,
              eventHandlers |-> m.this.eventHandlers,
              components |-> Len(m.maps) + 2,
              componentCounter |-> Len(m.counters) + 1,
              useObjectState |-> m.this.useObjectState]]

restoreState(m, state) ==
  [m EXCEPT !.this = [interactiveElements |-> state.interactiveElements,
                      stateVariables |-> state.stateVariables,
                      eventHandlers |-> state.eventHandlers,
                      components |-> state.components,
                      componentCounter |-> state.componentCounter,
                      useObjectState |-> state.useObjectState]]

\* analyzeInteractiveElements aggregating from 3 state variables on
analyzeAggregatingFromThree(m, tree, n) ==
  LET Stored(acc) ==
        [m EXCEPT !.maps[m.this.interactiveElements] = acc.ie,
                  !.this.stateVariables = acc.sv,
                  !.this.eventHandlers = acc.eh,
                  !.this.useObjectState = Len(acc.sv) >= StateThreshold]
  IN Stored(analyze(tree, n, [ie |-> Deref(m.maps, m.this.interactiveElements),
                              sv |-> m.this.stateVariables,
                              eh |-> m.this.eventHandlers]))

\* CodeGenerator.analyzeInteractiveElements(node)
analyzeInteractiveElements(m, tree, n) ==
  LET Stored(acc) ==
        [m EXCEPT !.maps[m.this.interactiveElements] = acc.ie,
                  !.this.stateVariables = acc.sv,
                  !.this.eventHandlers = acc.eh,
                  !.this.useObjectState = Len(acc.sv) > StateThreshold]
  IN Stored(analyze(tree, n, [ie |-> Deref(m.maps, m.this.interactiveElements),
                              sv |-> m.this.stateVariables,
                              eh |-> m.this.eventHandlers]))

\* ComponentAnalyzer.identify(node, 0, parentId, this.components, toPascalCase,
\* this.componentCounter)
identifyComponents(m, tree, n, parentId) ==
  LET Stored(acc) ==
        [m EXCEPT !.maps[m.this.components] = acc.comps,
                  !.counters[m.this.componentCounter] = acc.counter]
  IN Stored(identify(tree, n, 0, parentId,
                     [comps |-> Deref(m.maps, m.this.components),
                      counter |-> Deref(m.counters, m.this.componentCounter)]))

\* collectUsedComponents(node, usedIds)
collectUsedComponents(m, tree, n) ==
  { k \in Subtree(tree, n) : MapHas(Deref(m.maps, m.this.components), k) }

\* a key that always lies in the directory of its unit
FileKeyInComponents(dir, name, ext) == [dir |-> name, file |-> name, ext |-> ext]
\* a key that never lies in a directory
FileKeyFlat(dir, name, ext) == [dir |-> << >>, file |-> name, ext |-> ext]

\* the key of an output file: dir is << >> for a file outside components/
FileKey(dir, name, ext) == [dir |-> dir, file |-> name, ext |-> ext]

\* result[key] = content, and Object.assign: a present key is overwritten
ObjSet(obj, key, content) ==
  IF \E i \in DOMAIN obj : obj[i].key = key
    THEN [ i \in DOMAIN obj |-> IF obj[i].key = key THEN [key |-> key, content |-> content]
                                ELSE obj[i] ]
  ELSE Append(obj, [key |-> key, content |-> content])

RECURSIVE ObjAssign(_, _)
ObjAssign(obj, src) ==
  IF src = << >> THEN obj
  ELSE ObjAssign(ObjSet(obj, Head(src).key, Head(src).content), Tail(src))

ObjKeys(obj) == { obj[i].key : i \in DOMAIN obj }

\* the files of one unit rendered from node n under the live context m;
\* err tells that the transformers threw
UnitFiles(m, cfg, tree, n, unitName, inComponents, isSub) ==
  LET dir == IF inComponents THEN unitName ELSE << >>
      ext == IF cfg.useTypeScript THEN "tsx" ELSE "jsx"
      WithTypes(files, ie) ==
        IF cfg.useTypeScript
          THEN ObjSet(files, FileKey(dir, unitName, "types.ts"),
                      generateTypesFile(unitName, ie, m.this.stateVariables,
                                        m.this.eventHandlers))
        ELSE files
      Assembled(ie, comps, jsx, used) ==
        [err |-> jsx.err \/ cssThrows(tree, n),
         jsx |-> jsx.out,
         used |-> used,
         files |-> WithTypes(
                     ObjSet(ObjSet(<< >>, FileKey(dir, unitName, ext),
                                   reactTemplate(unitName, jsx.out, ie, m.this.stateVariables,
                                                 m.this.eventHandlers, comps,
                                                 m.this.useObjectState, cfg.useTypeScript,
                                                 isSub, used)),
                            FileKey(dir, unitName, "css"), cssGenerate(tree, n)),
                     ie)]
      Transformed(ie, comps) ==
        Assembled(ie, comps,
                  transform(tree, n, 1, unitName, ie, comps, m.this.useObjectState),
                  IF cfg.componentize THEN collectUsedComponents(m, tree, n) ELSE {})
  IN Transformed(MapCopy(Deref(m.maps, m.this.interactiveElements)),
                 MapCopy(Deref(m.maps, m.this.components)))


(***************************************************************************)
(* Documents and configurations the generator is run on                    *)
(***************************************************************************)
\* bound on the number of nodes of a free-form document
MaxNodes == 3
\* bound on the number of fields of a form document
MaxFields == 4
\* bound on the number of generate calls made on one instance
MaxCalls == 2

NoBox == [defined |-> FALSE, x |-> 0, y |-> 0, width |-> 0, height |-> 0]
Box(x, y) == [defined |-> TRUE, x |-> x, y |-> y, width |-> 100, height |-> 20]
Fill(visible) == [type |-> "SOLID", visible |-> visible, color |-> 1]

\* a node record without children
Template(name, type, charsKind, characters, fills, bbox) ==
  [name |-> name, type |-> type, charsKind |-> charsKind, characters |-> characters,
   fills |-> fills, strokes |-> << >>, cornerRadius |-> 0, layoutMode |-> "NONE",
   padding |-> << 0, 0, 0, 0 >>, opacity |-> Undefined, position |-> "NONE",
   bbox |-> bbox, rel |-> NoBox, children |-> << >>]

PageName == <<"P","a","g","e">>
CardName == <<"C","a","r","d">>
RowName == <<"R","o","w">>
LabelName == <<"L","a","b","e","l">>
SearchInputName == <<"S","e","a","r","c","h"," ","I","n","p","u","t">>
ExpandInputName == <<"E","x","p","a","n","d"," ","I","n","p","u","t">>
CollapseName == <<"C","o","l","l","a","p","s","e">>
ToggleName == <<"T","o","g","g","l","e">>
SwitchName == <<"S","w","i","t","c","h">>
SubmitButtonName == <<"S","u","b","m","i","t"," ","B","u","t","t","o","n">>
Component1Name == <<"C","o","m","p","o","n","e","n","t","1">>
HelloText == <<"H","i"," ","<","b",">">>

\* a plain page frame carrying one hidden fill
PageNode == Template(PageName, "FRAME", "absent", << >>, << Fill(FALSE) >>, Box(0, 0))
\* a frame named after a component keyword
CardNode == Template(CardName, "FRAME", "absent", << >>, << Fill(TRUE) >>, Box(10, 10))
\* an instance without a name
InstanceNode == Template(<< >>, "INSTANCE", "absent", << >>, << >>, Box(10, 40))
\* a group named after a component keyword whose only fill is hidden
RowGroupNode == Template(RowName, "GROUP", "absent", << >>, << Fill(FALSE) >>, NoBox)
TextNode == Template(LabelName, "TEXT", "string", HelloText, << >>, Box(20, 20))
\* a text node whose characters field holds a number
BadTextNode == Template(LabelName, "TEXT", "number", << "4", "2" >>, << >>, Box(20, 20))
InputNode == Template(SearchInputName, "FRAME", "absent", << >>, << >>, Box(20, 60))

RootPalette == { PageNode, CardNode }
Palette == { CardNode, InstanceNode, RowGroupNode, TextNode, BadTextNode, InputNode }
\* the names of the fields of a form, in the order they are laid out
FieldNames ==
  << SearchInputName, ExpandInputName, CollapseName, ToggleName, SwitchName, SubmitButtonName >>
FieldNode(f) == Template(FieldNames[f], "FRAME", "absent", << >>, << >>, Box(20, 60))

RECURSIVE Ancestors(_, _)
\* node i and its ancestors under the parent vector p
Ancestors(p, i) == IF i = RootId THEN {RootId} ELSE {i} \cup Ancestors(p, p[i])

\* the parent vectors of the trees of n nodes numbered in document order
Shapes(n) ==
  { p \in [2..n -> 1..(n - 1)] :
      \A i \in 2..n : p[i] < i /\ (i > 2 => p[i] \in Ancestors(p, i - 1)) }

RECURSIVE Ascending(_)
\* the elements of a set of numbers in ascending order
Ascending(S) ==
  IF S = {} THEN << >>
  ELSE LET x == CHOOSE y \in S : \A z \in S : y <= z
       IN << x >> \o Ascending(S \ {x})

WithChildren(p, nodes) ==
  [ i \in DOMAIN nodes |->
      [nodes[i] EXCEPT !.children = Ascending({ j \in DOMAIN p : p[j] = i })] ]

\* text nodes and input fields are leaves
WellFormed(tree) ==
  \A i \in DOMAIN tree :
    (tree[i].type = "TEXT" \/ tree[i].name = SearchInputName) => tree[i].children = << >>

FreeDocs ==
  UNION { { d \in { WithChildren(p, [ i \in 1..n |-> IF i = RootId THEN r ELSE t[i] ]) :
                      p \in Shapes(n), r \in RootPalette, t \in [2..n -> Palette] } :
            WellFormed(d) } : n \in 1..MaxNodes }

\* a page holding one card that holds k fields; fields of one name are laid
\* out next to each other
FormDocs ==
  UNION { { WithChildren([ i \in 2..(k + 2) |-> IF i = 2 THEN 1 ELSE 2 ],
                         [ i \in 1..(k + 2) |->
                             IF i = 1 THEN PageNode ELSE IF i = 2 THEN CardNode
                             ELSE FieldNode(f[i - 2]) ]) :
              f \in { g \in [1..k -> DOMAIN FieldNames] :
                        \A i \in 1..(k - 1) : g[i] <= g[i + 1] } } : k \in 0..MaxFields }

Docs == FreeDocs \cup FormDocs

\* new CodeGenerator(config): componentName << >> stands for null.  The
\* default configuration, each option changed on its own, and the flat
\* output without types.
DefaultConfig == [useTypeScript |-> TRUE, componentize |-> TRUE, componentName |-> << >>]
Configs ==
  { DefaultConfig,
    [DefaultConfig EXCEPT !.useTypeScript = FALSE],
    [DefaultConfig EXCEPT !.componentize = FALSE],
    [DefaultConfig EXCEPT !.componentize = FALSE, !.useTypeScript = FALSE],
    [DefaultConfig EXCEPT !.componentName = Component1Name] }

(***************************************************************************)
(* The generator as a state machine                                        *)
(***************************************************************************)
VARIABLES
  tree,      \* the document handed to generate (preprocessed in place)
  config,    \* the configuration of the instance
  this,      \* the context fields of the instance
  maps,      \* heap of Map objects
  counters,  \* heap of counter objects
  pc,        \* position of the control in generateReact / generateSubComponent
  gen,       \* locals of generateReact
  sub,       \* locals of generateSubComponent
  calls,     \* number of generate calls started
  returned,  \* what each finished call returned or threw
  hist       \* history: what the running call has registered and rendered

vars == << tree, config, this, maps, counters, pc, gen, sub, calls, returned, hist >>

M == [this |-> this, maps |-> maps, counters |-> counters]

NoGen ==
  [componentName |-> << >>, usedComponentIds |-> {}, rootNodeId |-> 0, result |-> << >>,
   generatedComponents |-> {}, iter |-> [map |-> 0, idx |-> 0]]

NoContext ==
  [interactiveElements |-> << >>, stateVariables |-> << >>, eventHandlers |-> << >>,
   components |-> << >>, componentCounter |-> 0, useObjectState |-> FALSE]

NoSub ==
  [componentInfo |-> [name |-> << >>, node |-> 0, parentId |-> 0],
   subComponentName |-> << >>,
   originalState |-> [interactiveElements |-> 0, stateVariables |-> << >>,
                      eventHandlers |-> << >>, components |-> 0, componentCounter |-> 0,
                      useObjectState |-> FALSE],
   result |-> << >>,
   before |-> NoContext]

\* rootComponents: the boundary map after the root pass; units: one record
\* per unit whose files were produced, with the context that was consumed
NoHist == [rootComponents |-> << >>, units |-> << >>, thrownIn |-> "none"]

Init ==
  /\ tree \in Docs
  /\ config \in Configs
  /\ this = NewGenerator.this
  /\ maps = NewGenerator.maps
  /\ counters = NewGenerator.counters
  /\ pc = "idle"
  /\ gen = NoGen
  /\ sub = NoSub
  /\ calls = 0
  /\ returned = << >>
  /\ hist = NoHist

Install(m) == this' = m.this /\ maps' = m.maps /\ counters' = m.counters

\* generate(figmaData) -> generateReact: resetState, preprocessNode and the
\* choice of the root unit's name
Generate ==
  /\ pc \in {"idle", "thrown"}
  /\ calls < MaxCalls
  /\ calls' = calls + 1
  /\ Install(resetState(M))
  /\ tree' = preprocessNode(tree)
  /\ gen' = [NoGen EXCEPT !.componentName =
               IF config.componentName # << >> THEN toPascalCase(config.componentName)
               ELSE toPascalCase(IF tree'[RootId].name = << >> THEN ComponentText
                                 ELSE tree'[RootId].name)]
  /\ sub' = NoSub
  /\ hist' = NoHist
  /\ pc' = "analyze"
  /\ UNCHANGED << config, returned >>

\* analyzeInteractiveElements(processedData) and ComponentAnalyzer.identify
AnalyzeRoot ==
  /\ pc = "analyze"
  /\ LET Identified(m2) ==
           /\ Install(m2)
           /\ hist' = [hist EXCEPT !.rootComponents =
                         MapCopy(Deref(m2.maps, m2.this.components))]
         Analyzed(m1) ==
           Identified(IF config.componentize THEN identifyComponents(m1, tree, RootId, 0)
                      ELSE m1)
     IN Analyzed(analyzeInteractiveElements(M, tree, RootId))
  /\ pc' = "render"
  /\ UNCHANGED << tree, config, gen, sub, calls, returned >>

UnitRecord(name, n, u) ==
  [name |-> name, node |-> n, context |-> ContextView(M), jsx |-> u.jsx,
   used |-> u.used, files |-> u.files]

\* the transformers, the types file and the root unit's entries of result; a
\* TypeError thrown by the transformers leaves generate at once
RenderRoot ==
  /\ pc = "render"
  /\ LET Rendering(u) ==
           IF u.err
             THEN /\ pc' = "thrown"
                  /\ hist' = [hist EXCEPT !.thrownIn = "root"]
                  /\ returned' = Append(returned, [ok |-> FALSE, result |-> << >>])
                  /\ UNCHANGED gen
           ELSE /\ gen' = [gen EXCEPT !.usedComponentIds = u.used,
                                      !.rootNodeId = RootId,
                                      !.result = u.files,
                                      !.generatedComponents = {gen.componentName},
                                      !.iter = [map |-> this.components, idx |-> 0]]
                /\ hist' = [hist EXCEPT !.units =
                              Append(@, UnitRecord(gen.componentName, RootId, u))]
                /\ pc' = IF config.componentize /\ MapSize(maps[this.components]) > 0
                           THEN "loop" ELSE "return"
                /\ UNCHANGED returned
     IN Rendering(UnitFiles(M, config, tree, RootId, gen.componentName,
                            config.componentize, config.componentize))
  /\ UNCHANGED << tree, config, this, maps, counters, sub, calls >>

\* for (const [componentId, componentInfo] of this.components.entries()):
\* the iterator is exhausted
LoopEnd ==
  /\ pc = "loop"
  /\ NextLive(maps[gen.iter.map], gen.iter.idx) = 0
  /\ pc' = "return"
  /\ UNCHANGED << tree, config, this, maps, counters, gen, sub, calls, returned, hist >>
\* the loop body without the test on generatedComponents
SkipsIgnoringNames(componentId, componentInfo) ==
  \/ componentId = gen.rootNodeId
  \/ componentId \notin gen.usedComponentIds

\* the three `continue` tests of the loop body
Skips(componentId, componentInfo) ==
  \/ componentId = gen.rootNodeId
  \/ componentId \notin gen.usedComponentIds
  \/ componentInfo.name \in gen.generatedComponents

LoopSkip ==
  /\ pc = "loop"
  /\ LET i == NextLive(maps[gen.iter.map], gen.iter.idx) IN
     /\ i # 0
     /\ Skips(maps[gen.iter.map][i].key, maps[gen.iter.map][i].val)
     /\ gen' = [gen EXCEPT !.iter.idx = i]
  /\ UNCHANGED << tree, config, this, maps, counters, pc, sub, calls, returned, hist >>

\* the loop body reaches the call of generateSubComponent
LoopEnter ==
  /\ pc = "loop"
  /\ LET i == NextLive(maps[gen.iter.map], gen.iter.idx) IN
     /\ i # 0
     /\ ~Skips(maps[gen.iter.map][i].key, maps[gen.iter.map][i].val)
     /\ gen' = [gen EXCEPT !.iter.idx = i,
                           !.generatedComponents = @ \cup {maps[gen.iter.map][i].val.name}]
     /\ sub' = [NoSub EXCEPT !.componentInfo = maps[gen.iter.map][i].val,
                             !.subComponentName = maps[gen.iter.map][i].val.name,
                             !.before = ContextView(M)]
  /\ pc' = "sub_save"
  /\ UNCHANGED << tree, config, this, maps, counters, calls, returned, hist >>

\* generateSubComponent: saveState and resetState
SubSave ==
  /\ pc = "sub_save"
  /\ LET s == saveState(M) IN
     /\ Install(resetState(s.m))
     /\ sub' = [sub EXCEPT !.originalState = s.state]
  /\ pc' = "sub_analyze"
  /\ UNCHANGED << tree, config, gen, calls, returned, hist >>

\* generateSubComponent: the two analyzers on componentInfo.node
SubAnalyze ==
  /\ pc = "sub_analyze"
  /\ LET n == sub.componentInfo.node
         Identified(m2) ==
           Install([m2 EXCEPT !.this.useObjectState =
                      Len(m2.this.stateVariables) > StateThreshold])
         Analyzed(m1) ==
           Identified(IF config.componentize THEN identifyComponents(m1, tree, n, n) ELSE m1)
     IN Analyzed(analyzeInteractiveElements(M, tree, n))
  /\ pc' = "sub_render"
  /\ UNCHANGED << tree, config, gen, sub, calls, returned, hist >>

\* generateSubComponent: the transformers and the unit's entries of result.
\* A TypeError thrown here leaves generateSubComponent, and generate, at
\* once: no statement of either runs after the throw.
SubRender ==
  /\ pc = "sub_render"
  /\ LET Rendering(u) ==
           IF u.err
             THEN /\ pc' = "thrown"
                  /\ hist' = [hist EXCEPT !.thrownIn = "sub"]
                  /\ returned' = Append(returned, [ok |-> FALSE, result |-> << >>])
                  /\ UNCHANGED sub
           ELSE /\ sub' = [sub EXCEPT !.result = u.files]
                /\ hist' = [hist EXCEPT !.units =
                              Append(@, UnitRecord(sub.subComponentName,
                                                   sub.componentInfo.node, u))]
                /\ pc' = "sub_restore"
                /\ UNCHANGED returned
     IN Rendering(UnitFiles(M, config, tree, sub.componentInfo.node, sub.subComponentName,
                            TRUE, TRUE))
  /\ UNCHANGED << tree, config, this, maps, counters, gen, calls >>

\* generateSubComponent: restoreState and return; Object.assign(result, subResult)
SubRestore ==
  /\ pc = "sub_restore"
  /\ Install(restoreState(M, sub.originalState))
  /\ gen' = [gen EXCEPT !.result = ObjAssign(@, sub.result)]
  /\ pc' = "loop"
  /\ UNCHANGED << tree, config, sub, calls, returned, hist >>

\* return result
Return ==
  /\ pc = "return"
  /\ returned' = Append(returned, [ok |-> TRUE, result |-> gen.result])
  /\ pc' = "idle"
  /\ UNCHANGED << tree, config, this, maps, counters, gen, sub, calls, hist >>

Next ==
  \/ Generate
  \/ AnalyzeRoot
  \/ RenderRoot
  \/ LoopEnd
  \/ LoopSkip
  \/ LoopEnter
  \/ SubSave
  \/ SubAnalyze
  \/ SubRender
  \/ SubRestore
  \/ Return

Spec == Init /\ [][Next]_vars


(***************************************************************************)
(* Properties                                                              *)
(***************************************************************************)
\* the source file of a produced unit
UnitSource(u) == u.files[1].content
\* the units of boundaries produced so far by the running call
SubUnits == { i \in DOMAIN hist.units : i > 1 }
\* whether markup holds a component reference tag rendered for node n
HasReferenceTo(jsx, n) == \E j \in DOMAIN jsx : jsx[j].k = "ref" /\ jsx[j].node = n
NoDuplicateIds(list) == \A i, j \in DOMAIN list : list[i].id = list[j].id => i = j
Ids(list) == { list[i].id : i \in DOMAIN list }
\* the context the two analyzers build for the unit of node n, starting from
\* an empty context
FreshContext(n, parentId) ==
  LET m1 == analyzeInteractiveElements(NewGenerator, tree, n)
      m2 == IF config.componentize THEN identifyComponents(m1, tree, n, parentId) ELSE m1
  IN ContextView(m2)

\* C1: when an error thrown inside generateSubComponent reaches the caller,
\* the live context (the contents of its six fields) equals the snapshot that
\* was taken before the descent.
C1_RestoredOnError ==
  (pc = "thrown" /\ hist.thrownIn = "sub") => ContextView(M) = sub.before

\* C2: with componentize on, when generate returns, every boundary below the
\* root that was registered in the root's context, and whose generated name
\* differs from the root unit's name and from the names of the boundaries
\* registered before it, has its source file and its stylesheet in the output.
C2_EveryBoundaryEmitted ==
  (pc = "return" /\ config.componentize) =>
    \A i \in DOMAIN hist.rootComponents :
      LET name == hist.rootComponents[i].val.name IN
      ( /\ hist.rootComponents[i].key # RootId
        /\ name # gen.componentName
        /\ \A j \in 1..(i - 1) : hist.rootComponents[j].val.name # name )
      => { FileKey(name, name, IF config.useTypeScript THEN "tsx" ELSE "jsx"),
           FileKey(name, name, "css") } \subseteq ObjKeys(gen.result)

\* C3: the markup of a unit never holds a component reference tag rendered
\* for the very node the unit is generated from.
C3_NoSelfReference ==
  \A i \in DOMAIN hist.units : ~HasReferenceTo(hist.units[i].jsx, hist.units[i].node)

\* C4: once generateSubComponent has returned normally, the six context fields
\* hold the contents they held immediately before the call.
C4_ContextRestored ==
  (pc = "loop" /\ sub.componentInfo.node # 0) => ContextView(M) = sub.before

\* C4 witness: generateSubComponent has returned after it had built, for the
\* boundary, a context different from the one it has put back.
C4_Witness ==
  /\ pc = "loop"
  /\ sub.componentInfo.node # 0
  /\ Len(hist.units) > 1
  /\ hist.units[Len(hist.units)].context # sub.before
  /\ ContextView(M) = sub.before

\* C5: a boundary's unit is produced only if the root unit's markup holds a
\* reference tag rendered for that boundary.
C5_EmittedOnlyIfReferenced ==
  \A i \in SubUnits : HasReferenceTo(hist.units[1].jsx, hist.units[i].node)

\* C6: in the context consumed for the unit of a boundary b, every child of b
\* that satisfies a boundary rule is registered as a boundary.
C6_NestedBoundariesRegistered ==
  \A i \in SubUnits :
    LET b == hist.units[i].node IN
    \A k \in DOMAIN tree[b].children :
      ShouldComponentize(tree, tree[b].children[k], 1)
        => MapHas(hist.units[i].context.components, tree[b].children[k])

\* C7: every generate call made on one instance with the same tree object and
\* configuration returns the same output map (or fails alike).
C7_Deterministic == \A i, j \in DOMAIN returned : returned[i] = returned[j]

\* C7 witness: a second call has returned a map with the files of a boundary,
\* on a tree whose root lost its hidden fill in the first call's preprocessing.
C7_Witness ==
  /\ Len(returned) = 2
  /\ returned[2].ok
  /\ Len(returned[2].result) > 3
  /\ tree[RootId].name = PageName
  /\ tree[RootId].fills = << >>

\* C8: the context consumed for a unit is the one the analyzers build from an
\* empty context over the unit's own subtree: its descriptors and boundaries
\* are keyed by nodes of that subtree, and nothing of the parent unit, of a
\* sibling unit or of an earlier generate call is in it.
C8_ContextIsolation ==
  pc \in {"sub_restore", "return", "thrown"} =>
    \A i \in DOMAIN hist.units :
      LET u == hist.units[i] IN
      /\ u.context = FreshContext(u.node, IF i = 1 THEN 0 ELSE u.node)
      /\ MapKeys(u.context.interactiveElements) \subseteq Subtree(tree, u.node)
      /\ MapKeys(u.context.components) \subseteq Subtree(tree, u.node)

\* C8 witness: in a second generate call on the instance, the unit of a
\* boundary has been produced while the root's context held an interactive
\* element outside the boundary's subtree.
C8_Witness ==
  /\ calls = 2
  /\ pc = "sub_restore"
  /\ Len(hist.units) = 2
  /\ MapKeys(hist.units[1].context.interactiveElements)
       \ Subtree(tree, hist.units[2].node) # {}
  /\ MapKeys(hist.units[2].context.components) # {}

\* C9: after the interactive element analysis of a unit, no two state
\* variables and no two event handlers have the same identifier.
C9_NoDuplicateIdentifiers ==
  pc \in {"render", "sub_render"} =>
    NoDuplicateIds(this.stateVariables) /\ NoDuplicateIds(this.eventHandlers)

\* C10: a unit's source declares the aggregated state record exactly when its
\* context holds more than 3 state variables: with 4 state variables of
\* distinct identifiers the aggregated record, with 1 to 3 state variables one
\* independent slot per variable.
C10_AggregationThreshold ==
  \A i \in DOMAIN hist.units :
    LET sv == hist.units[i].context.stateVariables
        src == UnitSource(hist.units[i])
    IN /\ (src.stateForm = "object") <=> (Len(sv) > StateThreshold)
       /\ (Len(sv) = StateThreshold + 1 /\ NoDuplicateIds(sv)) => src.stateForm = "object"
       /\ (Len(sv) \in 1..StateThreshold) =>
            (src.stateForm = "slots" /\ Len(src.state) = Len(sv))

\* C10 witness: the unit of a boundary has been produced from a context of
\* exactly 4 state variables of 4 identifiers, in the aggregated form.
C10_Witness ==
  \E i \in SubUnits :
    LET sv == hist.units[i].context.stateVariables IN
    /\ Len(sv) = StateThreshold + 1
    /\ Cardinality(Ids(sv)) = StateThreshold + 1
    /\ UnitSource(hist.units[i]).stateForm = "object"

\* C11: during one generate call every unit name is emitted at most once; the
\* unit emitted under a name belongs to the first boundary of the root's
\* boundary map, in document order, that carries the name; and at return the
\* root unit's files are in the result as the root unit produced them, so no
\* boundary named like the root has overwritten them.
C11_EmittedNamesUnique ==
  /\ \A i, j \in DOMAIN hist.units : hist.units[i].name = hist.units[j].name => i = j
  /\ \A i \in SubUnits : \A k \in DOMAIN hist.rootComponents :
       hist.rootComponents[k].val.name = hist.units[i].name
         => hist.units[i].node <= hist.rootComponents[k].key
  /\ pc = "return" =>
       \A f \in DOMAIN hist.units[1].files :
         \E r \in DOMAIN gen.result : gen.result[r] = hist.units[1].files[f]

\* a call returns after two boundaries of one name were registered for the
\* root and one unit was emitted under that name
C11_Witness ==
  /\ pc = "return"
  /\ Len(hist.units) = 2
  /\ \E k1, k2 \in DOMAIN hist.rootComponents :
       /\ k1 < k2
       /\ hist.rootComponents[k1].val.name = hist.rootComponents[k2].val.name
       /\ hist.rootComponents[k1].val.name = hist.units[2].name

\* the names that occur as component reference tags in the markup of unit u
ReferencedNames(u) == { u.jsx[j].tag : j \in { l \in DOMAIN u.jsx : u.jsx[l].k = "ref" } }

\* C12: the sub-component imports of every unit's source are one line per
\* distinct name that occurs as a reference tag in the unit's markup, the
\* unit's own name excluded: no name is imported twice and no name is
\* imported that the markup does not reference.
C12_ImportsMatchReferences ==
  \A i \in DOMAIN hist.units :
    LET u == hist.units[i]
        imports == UnitSource(u).imports
    IN /\ \A a, b \in DOMAIN imports : imports[a] = imports[b] => a = b
       /\ Range(imports) = ReferencedNames(u) \ {u.name}

(***************************************************************************)
(* Styled documents: a page holding one card that holds text and shape     *)
(* nodes differing in the attributes the stylesheet is derived from        *)
(***************************************************************************)
\* bound on the number of styled nodes of a styled document
MaxStyled == 3

TitleName == <<"T","i","t","l","e">>
BadgeName == <<"B","a","d","g","e">>
ChipName == <<"C","h","i","p">>
NoteName == <<"N","o","t","e">>
HintName == <<"H","i","n","t">>

StylePalette ==
  { Template(LabelName, "TEXT", "string", HelloText, << >>, Box(20, 20)),
    Template(TitleName, "TEXT", "string", HelloText, << >>, Box(20, 40)),
    Template(LabelName, "TEXT", "string", HelloText, << Fill(TRUE) >>, Box(20, 20)),
    Template(TitleName, "TEXT", "string", HelloText, << Fill(TRUE) >>, Box(20, 40)),
    Template(BadgeName, "FRAME", "absent", << >>, << Fill(TRUE) >>, NoBox),
    Template(ChipName, "FRAME", "absent", << >>, << Fill(TRUE) >>, NoBox),
    Template(NoteName, "TEXT", "string", HelloText, << >>, NoBox),
    Template(HintName, "TEXT", "string", HelloText, << >>, NoBox) }

\* the card with its fill, and the card without fills
StyleCards == { CardNode, Template(CardName, "FRAME", "absent", << >>, << >>, Box(10, 10)) }

StyledDocs ==
  UNION { { WithChildren([ i \in 2..(k + 2) |-> IF i = 2 THEN 1 ELSE 2 ],
                         [ i \in 1..(k + 2) |->
                             IF i = 1 THEN PageNode ELSE IF i = 2 THEN card
                             ELSE s[i - 2] ]) :
              s \in [1..k -> StylePalette], card \in StyleCards } : k \in 0..MaxStyled }

\* the generator run on styled documents under the default configuration
StyleInit ==
  /\ tree \in StyledDocs
  /\ config = DefaultConfig
  /\ this = NewGenerator.this
  /\ maps = NewGenerator.maps
  /\ counters = NewGenerator.counters
  /\ pc = "idle"
  /\ gen = NoGen
  /\ sub = NoSub
  /\ calls = 0
  /\ returned = << >>
  /\ hist = NoHist

StyleSpec == StyleInit /\ [][Next]_vars

\* the stylesheet of a produced unit
UnitStyles(u) == u.files[2].content
\* the rules of a stylesheet that name class c in their selector
RulesNaming(css, c) == { r \in DOMAIN css : c \in Range(css[r].selectors) }

\* C13: in the stylesheet of every unit, any two nodes of the unit's subtree
\* that have the same style key attributes, different class names and a
\* non-empty rule body share exactly one rule, whose selector lists both
\* class names; neither class has a rule without the other.
C13_StyleDedup ==
  \A i \in DOMAIN hist.units :
    LET u == hist.units[i]
        css == UnitStyles(u)
    IN \A a, b \in Subtree(tree, u.node) :
         ( /\ a # b
           /\ getStyleKey(tree, a) = getStyleKey(tree, b)
           /\ getClassName(tree, a) # << >> /\ getClassName(tree, b) # << >>
           /\ getClassName(tree, a) # getClassName(tree, b)
           /\ nodeToCSS(tree, a) # << >> /\ nodeToCSS(tree, b) # << >> )
         => /\ Cardinality(RulesNaming(css, getClassName(tree, a))
                           \cap RulesNaming(css, getClassName(tree, b))) = 1
            /\ RulesNaming(css, getClassName(tree, a)) = RulesNaming(css, getClassName(tree, b))

(***************************************************************************)
(* Configured names: the generator run with config.componentName drawn     *)
(* from the short texts over letters, digits, the blank and the hyphen     *)
(***************************************************************************)
\* bound on the length of a configured component name
MaxNameLen == 3

NameAlphabet == { "a", "B", "7", " ", "-" }
NameInputs == UNION { [1..n -> NameAlphabet] : n \in 1..MaxNameLen }

\* a page holding one card
NameDocs == { d \in FormDocs : Len(d) = 2 }

NameInit ==
  /\ tree \in NameDocs
  /\ config \in { [DefaultConfig EXCEPT !.componentName = s] : s \in NameInputs }
  /\ this = NewGenerator.this
  /\ maps = NewGenerator.maps
  /\ counters = NewGenerator.counters
  /\ pc = "idle"
  /\ gen = NoGen
  /\ sub = NoSub
  /\ calls = 0
  /\ returned = << >>
  /\ hist = NoHist

NameSpec == NameInit /\ [][Next]_vars

\* C14: when the configured component name is a non-empty text of letters,
\* digits, blanks and hyphens, the unit name toPascalCase derives from it
\* does not start with a digit and holds neither a blank nor a hyphen.
C14_PascalCaseClean ==
  (calls > 0 /\ config.componentName # << >>)
    => /\ ~IsDigit(Head(gen.componentName))
       /\ \A c \in Range(gen.componentName) : ~IsSep(c)

\* the keyword sets the lower-cased name matches
KindsOf(name) ==
  LET Matched(n) ==
        (IF isButton(n) THEN {"button"} ELSE {})
          \cup (IF isInput(n) THEN {"input"} ELSE {})
          \cup (IF isAccordion(n) \/ isCollapsible(n) THEN {"accordion"} ELSE {})
          \cup (IF isToggle(n) \/ isSwitch(n) THEN {"toggle"} ELSE {})
  IN Matched(toLowerCase(name))
\* the nodes of the set S whose name matches exactly the keyword set kind
OnlyOfKind(S, kind) == { n \in S : KindsOf(tree[n].name) = {kind} }
\* number of entries of list equal to e
Occurrences(list, e) == Cardinality({ i \in DOMAIN list : list[i] = e })
\* number of entries of list with identifier id
EntriesOf(list, id) == Cardinality({ i \in DOMAIN list : list[i].id = id })
\* what the entries with the identifier of node n must be in the context ctx
\* of a unit with nodes S, sv being the state variable and h the handler the
\* kind of n registers
RegisteredAs(ctx, S, n, sv, h) ==
  LET Same == { m \in S : DerivedId(tree[m].name, ButtonText) = DerivedId(tree[n].name, ButtonText) }
      id == DerivedId(tree[n].name, ButtonText)
  IN (\A m \in Same : KindsOf(tree[m].name) = KindsOf(tree[n].name))
       => /\ EntriesOf(ctx.eventHandlers, id) = Cardinality(Same)
          /\ Occurrences(ctx.eventHandlers, [id |-> id, handlerName |-> h]) = Cardinality(Same)
          /\ IF sv = "none" THEN EntriesOf(ctx.stateVariables, id) = 0
             ELSE /\ EntriesOf(ctx.stateVariables, id) = Cardinality(Same)
                  /\ Occurrences(ctx.stateVariables,
                                 [id |-> id, type |-> sv,
                                  defaultValue |-> IF sv = "string" THEN "" ELSE "false"])
                       = Cardinality(Same)

\* C15: in the context of every unit, each node of the unit whose name matches
\* only the button keywords has one click handler and no state variable; each
\* node matching only the input keywords has one string state variable with
\* the empty default and one change handler; each node matching only the
\* accordion or only the toggle keywords has one boolean state variable with
\* default false and one toggle handler.
C15_PerKindRegistration ==
  \A i \in DOMAIN hist.units :
    LET ctx == hist.units[i].context
        S == Subtree(tree, hist.units[i].node)
    IN /\ \A n \in OnlyOfKind(S, "button") : RegisteredAs(ctx, S, n, "none", "handleClick")
       /\ \A n \in OnlyOfKind(S, "input") : RegisteredAs(ctx, S, n, "string", "handleChange")
       /\ \A n \in OnlyOfKind(S, "accordion") : RegisteredAs(ctx, S, n, "boolean", "handleToggle")
       /\ \A n \in OnlyOfKind(S, "toggle") : RegisteredAs(ctx, S, n, "boolean", "handleToggle")

C15_Witness ==
  \E i \in SubUnits :
    LET S == Subtree(tree, hist.units[i].node)
    IN /\ pc = "return"
       /\ OnlyOfKind(S, "button") # {} /\ OnlyOfKind(S, "input") # {}
       /\ OnlyOfKind(S, "accordion") # {} /\ OnlyOfKind(S, "toggle") # {}
       /\ Len(hist.units[i].context.eventHandlers) = 4
       /\ Len(hist.units[i].context.stateVariables) = 3

(***************************************************************************)
(* List documents: a page holding, below a chain of plain frames, a grid   *)
(* of three leaves, with or without a card before it                       *)
(***************************************************************************)
\* bound on the depth at which the grid of a list document lies
MaxListDepth == 3

GridName == <<"G","r","i","d">>
GridNode == Template(GridName, "FRAME", "absent", << >>, << Fill(TRUE) >>, Box(10, 10))
\* the leaves a grid starts with
GridLeaves == { TextNode, InputNode }

\* the document with the grid at depth d, o nodes before the chain of frames
\* that leads to it (the page, and the card when o = 2), and the leaves kids
ListDoc(o, d, kids) ==
  WithChildren([ i \in 2..(o + d + 3) |->
                   IF i <= o + 1 THEN 1 ELSE IF i <= o + d THEN i - 1 ELSE o + d ],
               [ i \in 1..(o + d + 3) |->
                   IF i = 1 THEN PageNode
                   ELSE IF i <= o THEN CardNode
                   ELSE IF i < o + d THEN PageNode
                   ELSE IF i = o + d THEN GridNode
                   ELSE kids[i - o - d] ])

ListDocs ==
  { ListDoc(o, d, << a, b, TextNode >>) :
      o \in 1..2, d \in 1..MaxListDepth, a \in GridLeaves, b \in GridLeaves }

ListInit ==
  /\ tree \in ListDocs
  /\ config \in Configs
  /\ this = NewGenerator.this
  /\ maps = NewGenerator.maps
  /\ counters = NewGenerator.counters
  /\ pc = "idle"
  /\ gen = NoGen
  /\ sub = NoSub
  /\ calls = 0
  /\ returned = << >>
  /\ hist = NoHist

ListSpec == ListInit /\ [][Next]_vars

RECURSIVE DepthOf(_, _)
\* number of edges between the root and node n
DepthOf(t, n) == IF n = RootId THEN 0 ELSE 1 + DepthOf(t, ParentOf(t, n))
RECURSIVE ProperAncestors(_, _)
ProperAncestors(t, n) ==
  IF n = RootId THEN {} ELSE {ParentOf(t, n)} \cup ProperAncestors(t, ParentOf(t, n))
\* the repeated-structure condition as the claim states it
RepeatedAsStated(t, n) ==
  /\ DepthOf(t, n) < 3
  /\ Len(t[n].children) >= 3
  /\ t[t[n].children[1]].type = t[t[n].children[2]].type
  /\ Len(t[t[n].children[1]].children) - Len(t[t[n].children[2]].children) \in {-1, 0, 1}
\* the lines of markup rendered for the nodes of the set S
LinesFor(jsx, S) == { j \in DOMAIN jsx : jsx[j].node \in S }

\* C16: with componentize on, when generate returns, every node other than
\* the root that lies at depth below 3 under no registered boundary, has at
\* least 3 children and whose first two children agree in type and differ by
\* at most one in their number of children, is registered as a boundary; the
\* root unit's markup holds one reference tag for it and no line for any of
\* its descendants; and a unit generated from it holds a line for each of
\* its children.
C16_RepeatedStructureBoundary ==
  (pc = "return" /\ config.componentize) =>
    \A n \in DOMAIN tree \ {RootId} :
      ( /\ RepeatedAsStated(tree, n)
        /\ ProperAncestors(tree, n) \cap MapKeys(hist.rootComponents) = {} )
      => /\ n \in MapKeys(hist.rootComponents)
         /\ Cardinality(LinesFor(hist.units[1].jsx, {n})) = 1
         /\ HasReferenceTo(hist.units[1].jsx, n)
         /\ LinesFor(hist.units[1].jsx, Subtree(tree, n) \ {n}) = {}
         /\ \E i \in SubUnits :
              /\ hist.units[i].node = n
              /\ \A k \in DOMAIN tree[n].children :
                   LinesFor(hist.units[i].jsx, {tree[n].children[k]}) # {}

\* the wrapper condition as the claim states it, ie being the interactive
\* elements of the unit that is rendered
ElidableAsStated(t, w, ie) ==
  /\ t[w].type \in {"FRAME", "GROUP"}
  /\ t[w].fills = << >> /\ t[w].strokes = << >> /\ t[w].cornerRadius = 0
  /\ t[w].layoutMode = "NONE"
  /\ \A i \in DOMAIN t[w].padding : t[w].padding[i] = 0
  /\ t[w].opacity = Undefined
  /\ t[w].position = "NONE"
  /\ ~MapHas(ie, w)
  /\ Len(t[w].children) = 1
\* transform applied to node n at depth 1 with the context of unit u
RenderedIn(u, n) ==
  transform(tree, n, 1, u.name, u.context.interactiveElements, u.context.components,
            u.context.useObjectState)

\* C17: for every unit and every frame or group of its subtree that has no
\* fills, strokes, corner radius, layout mode, padding, opacity or position,
\* is not interactive and has exactly one child, transform returns for the
\* node what it returns for its child at the same depth.
C17_WrapperElision ==
  \A i \in DOMAIN hist.units :
    \A w \in Subtree(tree, hist.units[i].node) :
      ElidableAsStated(tree, w, hist.units[i].context.interactiveElements)
        => RenderedIn(hist.units[i], w) = RenderedIn(hist.units[i], tree[w].children[1])

\* C18: no step changes the document handed to generate: after preprocessNode
\* every node of the input has the fills, strokes, children and attributes it
\* had before the call.
C18_InputUnchanged == [][tree' = tree]_vars

\* the keys of the files of one unit: its source, its stylesheet and, when
\* typed, its type declarations, in directory dir
KeysAsStated(dir, name, typed) ==
  { [dir |-> dir, file |-> name, ext |-> IF typed THEN "tsx" ELSE "jsx"],
    [dir |-> dir, file |-> name, ext |-> "css"] }
    \cup (IF typed THEN { [dir |-> dir, file |-> name, ext |-> "types.ts"] } ELSE {})

\* C19: with componentize off, no boundary is ever registered, the root
\* unit's markup holds no component reference tag and its source no import of
\* a sub-component, and the map generate returns has exactly the keys
\* Name.ext, Name.css and, when typed, Name.types.ts of the root unit.
C19_FlatOutput ==
  ~config.componentize =>
    /\ MapSize(Deref(maps, this.components)) = 0
    /\ \A i \in DOMAIN hist.units :
         /\ i = 1
         /\ \A j \in DOMAIN hist.units[i].jsx : hist.units[i].jsx[j].k # "ref"
         /\ UnitSource(hist.units[i]).imports = << >>
    /\ pc = "return" =>
         /\ ObjKeys(gen.result) = KeysAsStated(<< >>, gen.componentName, config.useTypeScript)
         /\ Len(gen.result) = Cardinality(ObjKeys(gen.result))

C19_Witness ==
  /\ pc = "return"
  /\ ~config.componentize /\ ~config.useTypeScript
  /\ Len(gen.result) = 2
  /\ \E n \in DOMAIN tree \ {RootId} : ShouldComponentize(tree, n, 1)

WellTyped(t) == \A n \in DOMAIN t : t[n].charsKind \in {"absent", "string"}
\* the positions a generate call is at while it runs
Running == { "analyze", "render", "loop", "sub_save", "sub_analyze", "sub_render",
             "sub_restore", "return" }
\* a bound on the positions of the iterated Map: a call sets at most one
\* entry per node in the root pass and one more per node in the first
\* descent, and the positions cleared by the earlier calls on the same Map
\* object, at most one per node and call, stay behind the iterator
EntryBound == (calls + 1) * Len(tree)
\* a number that every step of a running generate call lowers
Rank ==
  CASE pc = "analyze" -> 5 * EntryBound + 10
    [] pc = "render" -> 5 * EntryBound + 9
    [] pc = "loop" -> 5 * (EntryBound - gen.iter.idx) + 5
    [] pc = "sub_save" -> 5 * (EntryBound - gen.iter.idx) + 9
    [] pc = "sub_analyze" -> 5 * (EntryBound - gen.iter.idx) + 8
    [] pc = "sub_render" -> 5 * (EntryBound - gen.iter.idx) + 7
    [] pc = "sub_restore" -> 5 * (EntryBound - gen.iter.idx) + 6
    [] pc = "return" -> 1
    [] OTHER -> 0

\* every step of a running generate call lowers Rank
StepsLowerRank == [][(pc \in Running) => (Rank > Rank')]_vars

\* C21: on a document whose nodes may lack a name, a bounding box, fills,
\* strokes or children, and whose characters are strings where present, no
\* generate call throws; and every generate call ends: the iterator of the
\* loop over the boundaries stays within a Map of bounded size, and every
\* step of a running call lowers a natural number.
C21_Totality ==
  /\ [](WellTyped(tree) => pc # "thrown")
  /\ [](pc \in Running \cup {"idle", "thrown"})
  /\ [](pc \in {"loop", "sub_save", "sub_analyze", "sub_render", "sub_restore"}
          => /\ gen.iter.idx <= Len(maps[gen.iter.map])
             /\ Len(maps[gen.iter.map]) <= EntryBound)
  /\ StepsLowerRank

C21_Witness ==
  /\ pc = "idle"
  /\ Len(returned) = MaxCalls
  /\ \A i \in DOMAIN returned : returned[i].ok
  /\ Len(hist.units) > 1
  /\ \E n \in DOMAIN tree : tree[n].name = << >> /\ tree[n].fills = << >>
  /\ \E n \in DOMAIN tree : ~tree[n].bbox.defined /\ tree[n].children = << >>

(***************************************************************************)
(* Control documents: a page holding a card that holds one interactive     *)
(* node, with or without a bounding box and with or without a text child   *)
(***************************************************************************)
ControlNames == { SubmitButtonName, SearchInputName, CollapseName, ToggleName }
ControlBoxes == { Box(20, 60), NoBox }
\* bound on the number of text children of the interactive node
MaxControlKids == 1

ControlDocs ==
  { WithChildren([ i \in 2..(3 + k) |-> IF i <= 3 THEN i - 1 ELSE 3 ],
                 [ i \in 1..(3 + k) |->
                     IF i = 1 THEN PageNode ELSE IF i = 2 THEN CardNode
                     ELSE IF i = 3 THEN Template(name, "FRAME", "absent", << >>, << >>, box)
                     ELSE TextNode ]) :
      name \in ControlNames, box \in ControlBoxes, k \in 0..MaxControlKids }

ControlInit ==
  /\ tree \in ControlDocs
  /\ config \in Configs
  /\ this = NewGenerator.this
  /\ maps = NewGenerator.maps
  /\ counters = NewGenerator.counters
  /\ pc = "idle"
  /\ gen = NoGen
  /\ sub = NoSub
  /\ calls = 0
  /\ returned = << >>
  /\ hist = NoHist

ControlSpec == ControlInit /\ [][Next]_vars

\* the nodes of unit u the markup walk comes to: those below no node that is
\* replaced by a component reference, and not replaced themselves
WalkedIn(u) ==
  { n \in Subtree(tree, u.node) :
      \A a \in (ProperAncestors(tree, n) \cup {n}) \cap Subtree(tree, u.node) :
        ~IsReference(u.context.components, a, u.name) }
\* the tag of an interactive element of kind type on a node of type t
TagAsStated(type, t) ==
  CASE type = "button" -> Chars("button")
    [] type = "input" -> Chars("input")
    [] OTHER -> Chars(mapFigmaTypeToHTML(LowerType(t)))
\* the names of the props a kind binds
BindingsAsStated(type) == IF type = "input" THEN {"value", "onChange"} ELSE {"onClick"}

\* C22: in every unit, every node that has an interactive descriptor and is
\* walked by the markup transformer has a tag line of its kind's tag that
\* carries the kind's bindings: onClick for a button, value and onChange for
\* an input, onClick for an accordion or a toggle.
C22_InteractiveEmitted ==
  \A i \in DOMAIN hist.units :
    \A n \in WalkedIn(hist.units[i]) :
      MapHas(hist.units[i].context.interactiveElements, n) =>
        \E j \in DOMAIN hist.units[i].jsx :
          LET l == hist.units[i].jsx[j] IN
          /\ l.node = n
          /\ l.k \in {"open", "elem", "void", "textel"}
          /\ l.tag = TagAsStated(MapGet(hist.units[i].context.interactiveElements, n).type,
                                 tree[n].type)
          /\ BindingsAsStated(MapGet(hist.units[i].context.interactiveElements, n).type)
               \subseteq { l.props[p].p : p \in DOMAIN l.props }

\* the keys of the boundaries in the context of unit u
BoundariesOf(u) == MapKeys(u.context.components)

\* C23: in the boundary map one identify pass builds for a unit, no boundary
\* lies below another boundary; every node of the unit's subtree that has no
\* boundary above it is a boundary exactly when a rule matches it at its
\* depth below the unit's node; and the boundaries are stored in document
\* order.
C23_NoNestedBoundaries ==
  config.componentize =>
    \A i \in DOMAIN hist.units :
      LET u == hist.units[i] IN
      /\ \A a, b \in BoundariesOf(u) : a # b => a \notin Subtree(tree, b)
      /\ \A n \in Subtree(tree, u.node) :
           (ProperAncestors(tree, n) \cap Subtree(tree, u.node) \cap BoundariesOf(u) = {})
             => (n \in BoundariesOf(u)
                   <=> ShouldComponentize(tree, n, DepthOf(tree, n) - DepthOf(tree, u.node)))
      /\ \A j, k \in DOMAIN u.context.components :
           j < k => u.context.components[j].key < u.context.components[k].key

C23_Witness ==
  /\ pc = "return" /\ config.componentize
  /\ \E b \in BoundariesOf(hist.units[1]) :
       /\ b # RootId
       /\ \E d \in Subtree(tree, b) \ {b} :
            /\ ShouldComponentize(tree, d, DepthOf(tree, d))
            /\ d \notin BoundariesOf(hist.units[1])
  /\ Cardinality(BoundariesOf(hist.units[1])) >= 1
  /\ \E n \in DOMAIN tree \ BoundariesOf(hist.units[1]) : tree[n].children # << >>

\* the nodes of the set S that extractStyles gives a style to, taken one by
\* one: a class name, a text node or a bounding box, and a non-empty body
StyledNodes(S) ==
  { n \in S : /\ getClassName(tree, n) # << >>
              /\ tree[n].type = "TEXT" \/ tree[n].bbox.defined
              /\ nodeToCSS(tree, n) # << >> }

\* C24: in the subtree of every unit, two styled nodes with the same style
\* key have the same rule body; and the body of the rule that names the
\* class of a styled node, when no other node of the subtree has that class,
\* is the rule body of that node.
C24_GroupBodiesAgree ==
  \A i \in DOMAIN hist.units :
    LET S == Subtree(tree, hist.units[i].node)
        css == UnitStyles(hist.units[i])
    IN /\ \A a, b \in StyledNodes(S) :
            (getStyleKey(tree, a) # << >> /\ getStyleKey(tree, a) = getStyleKey(tree, b))
              => nodeToCSS(tree, a) = nodeToCSS(tree, b)
       /\ \A n \in StyledNodes(S) :
            (\A m \in S \ {n} : getClassName(tree, m) # getClassName(tree, n))
              => \A r \in RulesNaming(css, getClassName(tree, n)) :
                   css[r].body = nodeToCSS(tree, n)

\* the registrations the nodes of the set S give rise to: one per node and
\* keyword set its name matches
Registrations(S) == { << n, k >> \in S \X {"button", "input", "accordion", "toggle"} : k \in KindsOf(tree[n].name) }

\* C25: the context of every unit holds a descriptor for every node of the
\* unit's subtree whose name matches a keyword set, the nodes inside
\* registered boundaries included, one handler per match and one state
\* variable per match other than button; the root unit's aggregation flag
\* and state form follow that count; and every node classified in the
\* context of a boundary's unit is classified in the root's context too.
C25_ClassifyVisitsAll ==
  \A i \in DOMAIN hist.units :
    LET u == hist.units[i]
        S == Subtree(tree, u.node)
    IN /\ MapKeys(u.context.interactiveElements) = { n \in S : KindsOf(tree[n].name) # {} }
       /\ Len(u.context.eventHandlers) = Cardinality(Registrations(S))
       /\ Len(u.context.stateVariables)
            = Cardinality({ r \in Registrations(S) : r[2] # "button" })
       /\ u.context.useObjectState
            <=> Cardinality({ r \in Registrations(S) : r[2] # "button" }) > StateThreshold
       /\ (UnitSource(u).stateForm = "object") <=> u.context.useObjectState
       /\ MapKeys(u.context.interactiveElements)
            \subseteq MapKeys(hist.units[1].context.interactiveElements)

C25_Witness ==
  /\ pc = "return"
  /\ Len(hist.units) = 2
  /\ MapKeys(hist.units[1].context.interactiveElements) # {}
  /\ MapKeys(hist.units[1].context.interactiveElements)
       \subseteq Subtree(tree, hist.units[2].node) \ {hist.units[2].node}
  /\ HasReferenceTo(hist.units[1].jsx, hist.units[2].node)
  /\ Len(hist.units[1].context.stateVariables) = StateThreshold + 1
  /\ UnitSource(hist.units[1]).stateForm = "object"
  /\ hist.units[2].context.stateVariables = hist.units[1].context.stateVariables

\* the last keyword set, in the order of the tests of analyze, that a name
\* matches
LastKind(name) ==
  LET Last(K) ==
        IF "toggle" \in K THEN "toggle" ELSE IF "accordion" \in K THEN "accordion"
        ELSE IF "input" \in K THEN "input" ELSE "button"
  IN Last(KindsOf(name))

\* C26: in the context of every unit, the descriptor of a node whose name
\* matches several keyword sets has the kind of the last matching set in the
\* order button, input, accordion, toggle, and the handler list and the state
\* list hold at most one entry with the node's identifier.
C26_MultiKindRegistration ==
  \A i \in DOMAIN hist.units :
    LET ctx == hist.units[i].context IN
    \A n \in Subtree(tree, hist.units[i].node) :
      Cardinality(KindsOf(tree[n].name)) > 1 =>
        /\ MapHas(ctx.interactiveElements, n)
        /\ MapGet(ctx.interactiveElements, n).type = LastKind(tree[n].name)
        /\ EntriesOf(ctx.eventHandlers, DerivedId(tree[n].name, ButtonText)) <= 1
        /\ EntriesOf(ctx.stateVariables, DerivedId(tree[n].name, ButtonText)) <= 1

\* the value bindings of the markup of unit u
ValueBindings(u) ==
  UNION { { u.jsx[j].props[p] : p \in { q \in DOMAIN u.jsx[j].props : u.jsx[j].props[q].p = "value" } } :
            j \in DOMAIN u.jsx }

\* C27: in every unit, root or boundary, a value binding of the markup reads
\* state.<id> exactly when the unit's source declares the aggregated state
\* record and the bare <id> exactly when it declares one slot per state
\* variable, and <id> is declared in the state of the source.
C27_StateFormAgrees ==
  \A i \in DOMAIN hist.units :
    \A b \in ValueBindings(hist.units[i]) :
      /\ b.obj <=> UnitSource(hist.units[i]).stateForm = "object"
      /\ ~b.obj <=> UnitSource(hist.units[i]).stateForm = "slots"
      /\ \E s \in DOMAIN UnitSource(hist.units[i]).state :
           UnitSource(hist.units[i]).state[s].id = b.v

C27_Witness ==
  /\ pc = "return"
  /\ \E i \in SubUnits :
       /\ \E b \in ValueBindings(hist.units[i]) : b.obj
       /\ UnitSource(hist.units[i]).stateForm = "object"
  /\ ValueBindings(hist.units[1]) = {}

\* the type declarations of a typed unit
UnitTypes(u) == u.files[3].content
\* the names of a sequence of declarations
Names(decls) == [ i \in DOMAIN decls |-> decls[i].name ]

\* C28: in every typed unit, the handlers interface of the type declarations
\* has one entry per event handler of the context, and the names it declares
\* are, in order, the names under which the source defines the handlers.
C28_TypesMirrorHandlers ==
  config.useTypeScript =>
    \A i \in DOMAIN hist.units :
      /\ Len(UnitTypes(hist.units[i]).handlers) = Len(hist.units[i].context.eventHandlers)
      /\ Names(UnitTypes(hist.units[i]).handlers) = Names(UnitSource(hist.units[i]).handlers)

\* this.componentCounter.value
CounterValue == Deref(counters, this.componentCounter)
\* the entries of a components Map that stand for unnamed nodes, in
\* insertion order
UnnamedEntries(comps) == SelectSeq(comps, LAMBDA e : tree[e.val.node].name = << >>)

\* C29: the anonymous-component counter is 0 when the boundaries of a unit
\* (root or boundary) are about to be identified; after the pass it equals
\* the number of unnamed nodes registered, the entries are in document order
\* and the k-th unnamed one is named Component<k>; after a nested generation
\* has returned, the counter has the value it had before the descent.
C29_AnonymousCounter ==
  /\ pc \in {"analyze", "sub_analyze"} => CounterValue = 0
  /\ \A i \in DOMAIN hist.units :
       /\ hist.units[i].context.componentCounter =
            Len(UnnamedEntries(hist.units[i].context.components))
       /\ \A k \in DOMAIN UnnamedEntries(hist.units[i].context.components) :
            UnnamedEntries(hist.units[i].context.components)[k].val.name =
              ComponentText \o Digits(k)
       /\ \A k, l \in DOMAIN hist.units[i].context.components :
            k < l => hist.units[i].context.components[k].key <
                       hist.units[i].context.components[l].key
  /\ pc \in {"render", "sub_render", "sub_restore"} =>
       CounterValue = Len(UnnamedEntries(MapCopy(maps[this.components])))
  /\ (pc = "loop" /\ sub # NoSub) =>
       /\ CounterValue = sub.before.componentCounter
       /\ CounterValue = hist.units[1].context.componentCounter

\* the root pass registered two unnamed nodes, the nested pass one, and the
\* nested generation has returned
C29_Witness ==
  /\ pc = "loop"
  /\ Len(hist.units) > 1
  /\ hist.units[1].context.componentCounter = 2
  /\ hist.units[2].context.componentCounter = 1
  /\ CounterValue = 2

\* the handler names bound by the markup of a unit (onClick and onChange)
HandlerBindings(u) ==
  UNION { { u.jsx[j].props[p].v :
              p \in { q \in DOMAIN u.jsx[j].props : u.jsx[j].props[q].p \in {"onClick", "onChange"} } } :
            j \in DOMAIN u.jsx }
\* the positions of the declarations of a name in a sequence of declarations
DeclaredAt(decls, name) == { i \in DOMAIN decls : decls[i].name = name }

\* C30: in every unit, every handler name bound in the markup is declared
\* exactly once in the unit's source.
C30_HandlersDeclaredOnce ==
  \A i \in DOMAIN hist.units :
    \A name \in HandlerBindings(hist.units[i]) :
      Cardinality(DeclaredAt(UnitSource(hist.units[i]).handlers, name)) = 1

=============================================================================
